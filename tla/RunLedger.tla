------------------------------ MODULE RunLedger ------------------------------
(***************************************************************************)
(* What the pipeline promises the readers of the database (the portal, the *)
(* analyst API, the monitor): run rows and document chains change only in  *)
(* commits of the one worker that holds the ledger, a commit writes the    *)
(* row of one run, a finished run is never written again, and a chain only *)
(* grows, by a content it does not have yet.                               *)
(***************************************************************************)
EXTENDS Naturals, Sequences

CONSTANTS Worker, NoWorker, Key, Source, Content, Row, Blank

VARIABLES holder, rows, chains

ledgerVars == <<holder, rows, chains>>

LedgerInit ==
    /\ holder = NoWorker
    /\ rows = [k \in Key |-> Blank]
    /\ chains = [s \in Source |-> <<>>]

Take ==
    /\ holder = NoWorker
    /\ holder' \in Worker
    /\ UNCHANGED <<rows, chains>>

\* Given back, or taken away by a lost session or a dead process.
Drop ==
    /\ holder # NoWorker
    /\ holder' = NoWorker
    /\ UNCHANGED <<rows, chains>>

Finished(row) == row.status = "completed" /\ row.found

Extends(old, new) ==
    \/ new = old
    \/ \E c \in Content : /\ \A i \in DOMAIN old : old[i] # c
                          /\ new = Append(old, c)

Commit ==
    /\ holder # NoWorker
    /\ \E k \in Key :
          /\ ~Finished(rows[k])
          /\ rows'[k] \in Row
          /\ rows' = [rows EXCEPT ![k] = rows'[k]]
    /\ \A s \in Source : Extends(chains[s], chains'[s])
    /\ DOMAIN chains' = Source
    /\ UNCHANGED holder

LedgerNext == Take \/ Drop \/ Commit

LedgerSpec == LedgerInit /\ [][LedgerNext]_ledgerVars
=============================================================================
