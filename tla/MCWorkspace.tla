---------------------------- MODULE MCWorkspace ----------------------------
(* Instances of Workspace for TLC.                                         *)
EXTENDS Workspace

CONSTANTS d1, d2, s1, s2

\* Everything that can be asked of d1 by two sessions that conflict, and on d2
\* what makes it compete for the table.
ServerCalls ==
    [kind : {"hold"}, db : {d1}, session : {s1}]
        \union [kind : {"write"}, db : {d1, d2}, session : {s2}]
        \union [kind : {"commit"}, db : {d1}, session : {s1}]
        \union [kind : {"create", "delete", "crash"}, db : {d1}]
=============================================================================
