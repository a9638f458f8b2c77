----------------------------- MODULE MCLibrary -----------------------------
\* The instance of Library that TLC checks.
EXTENDS Library

CONSTANTS n1, d1, c1, c2

\* Bounds of the instance.  Two calls overlap only while no document has been stored
\* and the process has not been ended; their names do not matter, the first is c1.
\* Notes are written before the document is imported, whose text has no chunk or
\* all of them.  The app is installed again when there is a backup, which the new
\* installation does not add to, and a process is ended when something is lost.
\* The Drive is listed before a document is stored, for a listing keeps nothing; a
\* removal fails where no backup will be made any more, and a file is missing from a
\* backup only if that is made while nothing is imported.
Missing == \E c \in Calls : call'[c].at = "upload" /\ call'[c].backup.missed # {}
Bound ==
  /\ (\A c \in Calls : call'[c] # Drive!NoCall) => stored' = {} /\ kills' = 0
  /\ call'[c2] # Drive!NoCall /\ call[c2] = Drive!NoCall => call[c1] # Drive!NoCall
  /\ store'.notes \subseteq store.notes \/ stored = {} \/ restores' > restores
  /\ \A d \in Docs : size'[d] \in {0, MaxChunks}
  /\ installs' > installs => kills = 0 /\ backups # <<>>
  /\ installs > 0 => \A c \in Calls : call'[c].op # "sync"
  /\ kills' > kills => job.phase # "idle" \/ store # saved \/ torn' # torn
  /\ \A c \in Calls : call'[c].op = "list" => kills = 0 /\ stored = {}
  /\ leaked' # leaked /\ store'.documents # store.documents => installs = MaxInstalls
  /\ Missing => job.phase = "idle"

MCSpec == Init /\ [][Next]_vars /\ Fairness
=============================================================================
