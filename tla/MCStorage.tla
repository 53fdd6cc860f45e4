----------------------------- MODULE MCStorage -----------------------------
(* Instances of Storage for TLC; the .cfg files give the sizes.            *)
EXTENDS Storage, TLC

\* Pages are interchangeable.
PageSymmetry == Permutations(Pages)

\* Any first crash; after one that a restart repairs, any of those again, or
\* one at the end of the recovery itself.
Whatever(S) == [r \in BOOLEAN |-> S]
Points(repaired, other) == [r \in BOOLEAN |-> IF r THEN repaired ELSE other]

NoCrash == <<>>
AnyCrashes ==
    <<Whatever(CrashPoints \ {"reset", "recovery"}), Points(Repaired \union {"reset"}, {})>>
RepairedTwice == <<Whatever(Repaired \ {"recovery"}), Whatever(Repaired)>>
CrashTwice == <<Whatever({"between"}), Whatever({"between"})>>
TornHeadThenCrash == <<Whatever({"torn head"}), Whatever({"between"})>>
TruncatedThenCrash == <<Whatever({"truncated"}), Whatever({"between"})>>
CrashInResetThenCrash == <<Whatever({"between"}), Whatever({"reset"}), Whatever({"between"})>>
CrashOnce == <<Whatever({"between"})>>
=============================================================================
