---------------------------- MODULE Serialization ----------------------------
(***************************************************************************)
(* How the client turns values into text: the query of src/utils/http.ts,  *)
(* the cache and deduplication key of src/utils/keys.ts, and the form of   *)
(* src/utils/form-data.ts.  A text is the sequence of its fields, each     *)
(* with the path of names it is written under; escaping is left out, which *)
(* the query does and the key does not.  The entries of an object are a    *)
(* sequence, in the order of the object; names and scalars are numbers.    *)
(***************************************************************************)
EXTENDS Data, TLC, Bitwise

-----------------------------------------------------------------------------
\* The fields of a scalar, or of a list under one name.
Flat(path, value) ==
  IF value.kind = "list" THEN [i \in DOMAIN value.items |-> <<path, value.items[i]>>]
  ELSE <<<<path, value.v>>>>

\* The fields of a parameter: an object is nested in brackets, one level deep.
Fields(entry) ==
  IF entry[2].kind = "object"
  THEN FlattenSeq([i \in DOMAIN entry[2].entries |->
                    Flat(<<entry[1], entry[2].entries[i][1]>>, entry[2].entries[i][2])])
  ELSE Flat(<<entry[1]>>, entry[2])

\* serializeParams()
SerializeParams(params) == FlattenSeq([i \in DOMAIN params |-> Fields(params[i])])

SortedByName(entries) == SortSeq(entries, LAMBDA a, b : a[1] < b[1])

SortedValue(value) ==
  CASE value.kind = "scalar" -> value
    [] value.kind = "list" -> List(SortSeq(value.items, <))
    [] value.kind = "object" ->
         Object([i \in DOMAIN value.entries |->
                  LET entry == SortedByName(value.entries)[i]
                  IN  IF entry[2].kind = "list" THEN Entry(entry[1], List(SortSeq(entry[2].items, <))) ELSE entry])

\* generateKey() of a URL that is not too long: names and the values of lists are sorted.
GenerateKey(params) ==
  LET sorted == SortedByName(params)
  IN  SerializeParams([i \in DOMAIN sorted |-> Entry(sorted[i][1], SortedValue(sorted[i][2]))])

\* simpleHash() of character codes: these are the low bits of 32, which depend on none above
\* them; the product of one bit more would exceed the integers TLC computes with.
HashWidth == 25
SimpleHash(codes) == FoldLeft(LAMBDA hash, code : ((hash * 33) % 2 ^ HashWidth) ^^ code, 5381, codes)

\* generateKey() puts the hash in place of a key that is too long.
KeyOf(codes, limit) == IF Len(codes) > limit THEN <<"hash", SimpleHash(codes)>> ELSE codes

\* sha256(): what it computes, by the runtime's crypto, Node's, or none.
Digest(codes, subtle, node) == IF subtle \/ node THEN codes ELSE SimpleHash(codes)

\* http(): the number of slashes between a base URL and a path that end and begin with the
\* given numbers of them; one is taken from each.
SlashesBetween(trailing, leading) ==
  LET rest(n) == IF n > 0 THEN n - 1 ELSE 0 IN rest(trailing) + 1 + rest(leading)

\* generateCurl(): whether the base URL is put before the URL, which http() does to an
\* absolute one too, and the headers, for a request with headers of its own or without.
CurlPrefixes(hasBase, absolute) == hasBase /\ ~absolute
CurlHeaders(base, own) == IF own = Null THEN <<>> ELSE own.headers @@ base

-----------------------------------------------------------------------------
\* objectToFormData(): an absent value is left out; the values of a list repeat its name,
\* but the objects in it are numbered, and a date among them, which has no entries, is lost.
RECURSIVE FormFields(_, _)
FormFields(path, entries) ==
  LET item(name, index, value) ==
        CASE value.kind = "null" -> <<<<Append(path, name), Null>>>>
          [] value.kind = "scalar" -> <<<<Append(path, name), value>>>>
          [] value.kind = "date" -> <<>>
          [] value.kind = "list" ->
               FormFields(path \o <<name, index>>, [i \in DOMAIN value.items |-> Entry(i - 1, value.items[i])])
          [] value.kind = "object" -> FormFields(path \o <<name, index>>, value.entries)
      field(entry) ==
        LET name == entry[1]
            value == entry[2]
        IN  CASE value.kind = "null" -> <<>>
              [] value.kind \in {"scalar", "date"} -> <<<<Append(path, name), value>>>>
              [] value.kind = "list" ->
                   FlattenSeq([i \in DOMAIN value.items |-> item(name, i - 1, value.items[i])])
              [] value.kind = "object" -> FormFields(Append(path, name), value.entries)
  IN  FlattenSeq([i \in DOMAIN entries |-> field(entries[i])])

ObjectToFormData(entries) == FormFields(<<>>, entries)
=============================================================================
