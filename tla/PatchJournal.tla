---------------------------- MODULE PatchJournal ----------------------------
(***************************************************************************)
(* append_patch_record: one JSONL record is added to a session's patch     *)
(* journal by copying the journal to a temporary file, adding the record   *)
(* and renaming the copy over it.  A rename that raises may or may not     *)
(* have happened; restore_after_replace_error then looks, and undoes it.   *)
(*                                                                         *)
(* Each writer is one call adding its own record; the process that owns    *)
(* the session makes its calls one after the other.                        *)
(***************************************************************************)
EXTENDS Naturals, Sequences, SequencesExt

CONSTANTS
    Writer,    \* the calls, each appending the record it is named after
    Old,       \* the record a journal that exists starts with
    Missing    \* the content of a journal file that does not exist

Records == Writer \cup {Old}

ASSUME JournalAssumption == Old \notin Writer /\ Missing \notin Seq(Records)

VARIABLES
    journal,   \* the journal file: a sequence of records, or Missing
    pc,        \* writer -> its next step
    before,    \* writer -> what it read, Missing if there was no journal
    temps,     \* writer -> number of temporary files it left on disk
    result     \* writer -> what the call reported

vars == <<journal, pc, before, temps, result>>

Text(j)  == IF j = Missing THEN <<>> ELSE j
After(w) == Append(Text(before[w]), w)

Holds(j, r) == j # Missing /\ r \in ToSet(j)

Init ==
    /\ journal \in {Missing, <<Old>>}
    /\ pc = [w \in Writer |-> "read"]
    /\ before = [w \in Writer |-> Missing]
    /\ temps = [w \in Writer |-> 0]
    /\ result = [w \in Writer |-> "none"]

Goto(w, label) == pc' = [pc EXCEPT ![w] = label] /\ UNCHANGED result

Finish(w, outcome) ==
    /\ pc' = [pc EXCEPT ![w] = "done"]
    /\ result' = [result EXCEPT ![w] = outcome]

\* A temporary file is discarded, or stays when the unlink fails.
Discard(w, left) ==
    temps' \in {[temps EXCEPT ![w] = left], [temps EXCEPT ![w] = left + 1]}

-----------------------------------------------------------------------------
Read(w) ==
    /\ pc[w] = "read"
    /\ \A v \in Writer : pc[v] \in {"read", "done"}
    /\ before' = [before EXCEPT ![w] = journal]
    /\ Goto(w, "temp")
    /\ UNCHANGED <<journal, temps>>

\* write_journal_temporary: the copy with the new record, synced.
WriteTemporary(w) ==
    /\ pc[w] = "temp"
    /\ \/ Goto(w, "replace") /\ UNCHANGED temps
       \/ Finish(w, "raised") /\ Discard(w, 0)
    /\ UNCHANGED <<journal, before>>

\* os.replace succeeds, fails, or raises after it took effect.
Replace(w) ==
    /\ pc[w] = "replace"
    /\ \/ journal' = After(w) /\ Finish(w, "appended") /\ UNCHANGED temps
       \/ journal' = After(w) /\ Goto(w, "observe") /\ UNCHANGED temps
       \/ UNCHANGED journal /\ Goto(w, "observe") /\ Discard(w, 0)
    /\ UNCHANGED before

\* Faulty: a journal that cannot be read counts as restored.
ObserveHopefully(w) ==
    /\ pc[w] = "observe"
    /\ \/ journal = After(w) /\ Goto(w, "undo_temp")
       \/ Finish(w, "restored")
    /\ UNCHANGED <<journal, before, temps>>

\* restore_after_replace_error reads the journal to see what happened.
Observe(w) ==
    /\ pc[w] = "observe"
    /\ \/ journal = before[w] /\ Finish(w, "restored")
       \/ journal \notin {before[w], After(w)} /\ Finish(w, "indeterminate")
       \/ journal = After(w) /\ Goto(w, "undo_temp")
       \/ Finish(w, "indeterminate")    \* the journal cannot be read
    /\ UNCHANGED <<journal, before, temps>>

\* The old text is prepared for the reverse rename; a new journal is unlinked.
PrepareUndo(w) ==
    /\ pc[w] = "undo_temp"
    /\ \/ Goto(w, "undo") /\ UNCHANGED temps
       \/ before[w] # Missing /\ Goto(w, "final") /\ Discard(w, temps[w])
    /\ UNCHANGED <<journal, before>>

\* The reverse rename, or the unlink of a journal that did not exist.  Either may
\* raise before or after it took effect.
Undo(w) ==
    /\ pc[w] = "undo"
    /\ Goto(w, "final")
    /\ \/ journal' = before[w] /\ UNCHANGED temps
       \/ /\ UNCHANGED journal
          /\ IF before[w] = Missing THEN UNCHANGED temps ELSE Discard(w, temps[w])
    /\ UNCHANGED before

Final(w) ==
    /\ pc[w] = "final"
    /\ \/ journal = before[w] /\ Finish(w, "restored")
       \/ /\ journal # before[w]
          /\ Finish(w, IF journal = After(w) THEN "indeterminate_persisted"
                                             ELSE "indeterminate")
       \/ Finish(w, "indeterminate")    \* the journal cannot be read
    /\ UNCHANGED <<journal, before, temps>>

\* The process dies.  The temporary file stays if there is one by then.
Crash(w) ==
    /\ pc[w] # "done"
    /\ Finish(w, "none")
    /\ \/ /\ pc[w] \in {"temp", "replace"} \/
             (pc[w] \in {"undo_temp", "undo"} /\ before[w] # Missing)
          /\ temps' = [temps EXCEPT ![w] = @ + 1]
       \/ pc[w] \notin {"replace", "undo"} /\ UNCHANGED temps
       \/ pc[w] = "undo" /\ before[w] = Missing /\ UNCHANGED temps
    /\ UNCHANGED <<journal, before>>

Step(w) == \/ Read(w) \/ WriteTemporary(w) \/ Replace(w) \/ Observe(w)
           \/ PrepareUndo(w) \/ Undo(w) \/ Final(w) \/ Crash(w)

Done == (\A w \in Writer : pc[w] = "done") /\ UNCHANGED vars

Next == (\E w \in Writer : Step(w)) \/ Done

Spec == Init /\ [][Next]_vars

-----------------------------------------------------------------------------
(* Properties. *)

\* "Atomically append one JSONL record" (journal.py:23): a step changes the
\* journal only by adding one record at its end or by withdrawing the last one.
OnlyTheTailChanges ==
    [][journal' # journal =>
           \E w \in Writer : \/ journal' = Append(Text(journal), w)
                            \/ Text(journal) = Append(Text(journal'), w)]_vars

\* The call reports what became of its record: a clean return means the record
\* is in the journal, an error that was restored means it is not, and only the
\* two indeterminate results leave the question open.
ReportTruthful ==
    \A w \in Writer :
        /\ result[w] \in {"appended", "indeterminate_persisted"} => Holds(journal, w)
        /\ result[w] \in {"raised", "restored"} => ~ Holds(journal, w)

=============================================================================
