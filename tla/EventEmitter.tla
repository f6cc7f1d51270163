----------------------------- MODULE EventEmitter -----------------------------
(***************************************************************************)
(* One event of the emitter of src/utils/emitter.ts: its listeners, each   *)
(* the function that was given and whether once() wraps it, and what a     *)
(* call of emit() does when the functions add, remove and emit.  An error  *)
(* a listener throws is thrown again later, and changes nothing here.      *)
(***************************************************************************)
EXTENDS Integers, Sequences, SequencesExt

\* The emitter, with the number of wrappers once() has made, the calls made so far and the
\* emissions a listener may still make.
Emitter == [listeners |-> <<>>, wrappers |-> 0, calls |-> <<>>, budget |-> 1]

\* A listener is the function itself, or one of the wrappers of once().
On(e, fn) == [e EXCEPT !.listeners = Append(@, [fn |-> fn, wrapper |-> 0])]
Once(e, fn) ==
  [e EXCEPT !.wrappers = @ + 1,
            !.listeners = Append(@, [fn |-> fn, wrapper |-> e.wrappers + 1])]
RemoveListener(e, l) == [e EXCEPT !.listeners = SelectSeq(@, LAMBDA m : m # l)]
Off(e, fn) == RemoveListener(e, [fn |-> fn, wrapper |-> 0])
RemoveAllListeners(e) == [e EXCEPT !.listeners = <<>>]

\* emit() calls the listeners there are when it begins, those removed meanwhile included.
\* effect[fn] is what a function does: <<"none">>, <<"on", f>>, <<"off", f>>, <<"clear">>
\* or <<"emit">>; the wrapper of once() removes itself before it calls the function.
RECURSIVE Emit(_, _)
Emit(emitter, effect) ==
  LET call(e, l) ==
        LET d == IF l.wrapper > 0 THEN RemoveListener(e, l) ELSE e
            c == [d EXCEPT !.calls = Append(@, l)]
            does == effect[l.fn]
        IN  CASE does[1] = "on" -> On(c, does[2])
              [] does[1] = "off" -> Off(c, does[2])
              [] does[1] = "clear" -> RemoveAllListeners(c)
              [] does[1] = "emit" /\ c.budget > 0 -> Emit([c EXCEPT !.budget = @ - 1], effect)
              [] does[1] = "none" \/ (does[1] = "emit" /\ c.budget = 0) -> c
  IN  FoldLeft(call, emitter, emitter.listeners)
=============================================================================
