---------------------------- MODULE MCCoreCalls ----------------------------
(* Two sessions, of the same core or of two, each core asking for whatever *)
(* the header lets it ask for.                                             *)
EXTENDS CoreCalls

CONSTANTS s1, s2, c1, c2

TwoSessions == {s1, s2}
TwoCores == {c1, c2}

(* Two commands that the header lists under one number are one command.    *)
ASSUME NumbersDistinct ==
  \A a, b \in Commands : a.number = b.number => a = b
=============================================================================
