---------------------------- MODULE MCCredentials ----------------------------
(***************************************************************************)
(* Values for the constants of Credentials.                                *)
(***************************************************************************)
EXTENDS Credentials, TLC

\* Two spellings of one name, with and without blanks.
MCStrip == [s \in Spellings |-> CHOOSE n \in Names : TRUE]

\* Processes share credentials under one name that they spell alike or not, while
\* answers get lost, and shut them off while everything goes wrong.
MCOneName == {CHOOSE s \in Spellings : TRUE}
MCShare == [ops |-> {"ensure", "rotate", "quota"}, names |-> MCOneName, limits |-> Limits,
            faults |-> {"lost"}, tokens |-> 3]
MCSpell == [ops |-> {"ensure"}, names |-> Spellings, limits |-> {}, faults |-> {"lost"}, tokens |-> 3]
MCShutOff == [ops |-> {"ensure", "revoke", "delete"}, names |-> MCOneName, limits |-> {},
              faults |-> {"lost", "late", "unreadable"}, tokens |-> 2]
MCSettings == {MCShare, MCSpell, MCShutOff}

\* A credential is issued and updated, and every answer arrives.
MCUpdate == {[ops |-> {"issue", "update"}, names |-> Spellings, limits |-> Limits, faults |-> {}, tokens |-> 2]}

ProcessSymmetry == Permutations(Processes)
=============================================================================
