----------------------------- MODULE MCRecorder -----------------------------
(* A small instance of Recorder for TLC. *)
EXTENDS Recorder

\* Two entries that can be told apart.
MCEntries == {[kind |-> "event", bus |-> 1], [kind |-> "event", bus |-> 2]}
=============================================================================
