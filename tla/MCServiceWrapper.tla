-------------------------- MODULE MCServiceWrapper --------------------------
(* The command lines a service may be configured with: the wrapper's path  *)
(* plain, quoted, or quoted with a space in it, and no target at all.      *)
EXTENDS ServiceWrapper

Target == <<"quote", "target.exe", "quote">>
Paths == { <<"ServiceWrapper.exe">>,
           <<"quote", "ServiceWrapper.exe", "quote">>,
           <<"quote", "C:/Program", Space, "Files/ServiceWrapper.exe", "quote">> }

MCCommandLines ==
  {[exe |-> p, rest |-> Target] : p \in Paths}
    \cup {[exe |-> p, rest |-> Target \o <<Space, "argument">>] : p \in Paths}
    \cup {[exe |-> <<"ServiceWrapper.exe">>, rest |-> <<>>]}
=============================================================================
