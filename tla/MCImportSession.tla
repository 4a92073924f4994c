---------------------------- MODULE MCImportSession ----------------------------
(* A quiet job that sets a field, the first in its process; a clean slate    *)
(* that asks and sets it too, after an earlier job; a quiet job that leaves  *)
(* the field out, after the same.                                          *)
EXTENDS ImportSession

Plain == [quiet |-> TRUE, clean |-> FALSE, group |-> TRUE, field |-> "submitted"]
Slate == [quiet |-> FALSE, clean |-> TRUE, group |-> FALSE, field |-> "submitted"]
Bare == [quiet |-> TRUE, clean |-> FALSE, group |-> TRUE, field |-> NoValue]

MCConfigFile == [group |-> FALSE, field |-> "configured"]
MCBuiltIn == [group |-> FALSE, field |-> NoValue]

\* What beets ships, the file, and an earlier job.
MCUsed == Overlay(Overlay(MCBuiltIn, MCConfigFile.group, MCConfigFile.field), TRUE, Earlier)

MCStarts == {[job |-> Plain, applied |-> FALSE, config |-> MCBuiltIn],
             [job |-> Slate, applied |-> TRUE, config |-> MCUsed]}

MCLater == {[job |-> Bare, applied |-> TRUE, config |-> MCUsed]}

MCWatched == {1, 4}
=============================================================================
