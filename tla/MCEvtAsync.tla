----------------------------- MODULE MCEvtAsync -----------------------------
(* Client threads are interchangeable, and so are the asynchronous events.  *)
EXTENDS EvtAsync, TLC

Interchangeable == Permutations(Threads) \cup Permutations(Asyncs)
=============================================================================
