----------------------------- MODULE DelistWatch -----------------------------
(***************************************************************************)
(* When one symbol is taken for delisted: the counter of failures shared   *)
(* by the price poll (infra_fleet.rs, task 3) and the download jobs        *)
(* (jobs_download.rs), and the purge both call (persistence.rs).  The poll *)
(* asks for all its symbols first and counts afterwards; a download counts *)
(* each answer at once.  The exchange may answer anything at any time.     *)
(***************************************************************************)
EXTENDS Integers, FiniteSets

CONSTANTS
    threshold,        \* DELISTED_DETECTION_THRESHOLD; 0 turns the watch off
    Downloads,        \* download jobs, nothing keeps two apart
    MaxFails          \* bound on the failures counted

WatchAssumption == threshold \in Nat /\ MaxFails \in Nat /\ MaxFails > threshold

VARIABLES
    skipped,          \* DELISTED_SKIP holds the symbol
    fails,            \* DELISTED_FAIL_COUNTERS
    poll,             \* where the price poll is
    download,         \* job -> where it is
    unknown,          \* answers "no such symbol" since candles were last received (history)
    evidence          \* unknown at the decision to purge (history)

watchVars == <<skipped, fails, poll, download, unknown, evidence>>

\* The poll's fetch gives candles, fresh or old; the API may say that there is no such
\* symbol, or fail for a reason of its own (rate limit, connection).
Answers == {"candles", "old candles", "no symbol", "transient"}

Init ==
    /\ skipped = FALSE /\ fails = 0 /\ unknown = 0 /\ evidence = {}
    /\ poll = "idle"
    /\ download = [j \in Downloads |-> "idle"]

UpTo(n) == IF n > MaxFails THEN MaxFails ELSE n

Heard(answer) ==
    unknown' = CASE answer \in {"candles", "old candles"} -> 0
                 [] answer = "no symbol" -> UpTo(unknown + 1)
                 [] OTHER -> unknown

-----------------------------------------------------------------------------

\* symbol_eligible_for_live: a symbol marked as delisted is in no list any more.
PollList ==
    /\ poll = "idle" /\ ~skipped
    /\ poll' = "listed"
    /\ UNCHANGED <<skipped, fails, download, unknown, evidence>>

\* Mutant: the counter goes back to zero only when the price is used.
PollAnswerFreshOnly ==
    /\ poll = "listed"
    /\ \E answer \in Answers :
         /\ Heard(answer)
         /\ fails' = IF answer = "candles" THEN 0 ELSE fails
         /\ poll' = CASE answer \in {"candles", "old candles"} -> "idle"
                      [] answer = "no symbol" -> "unknown"
                      [] OTHER -> "idle"
    /\ UNCHANGED <<skipped, download, evidence>>

PollAnswer ==
    /\ poll = "listed"
    /\ \E answer \in Answers :
         /\ Heard(answer)
         /\ fails' = IF answer \in {"candles", "old candles"} THEN 0 ELSE fails
         /\ poll' = CASE answer \in {"candles", "old candles"} -> "idle"
                      [] answer = "no symbol" -> "unknown"
                      [] OTHER -> "idle"
    /\ UNCHANGED <<skipped, download, evidence>>

\* After the other symbols' fetches: only now is the failure counted.
PollCount ==
    /\ poll = "unknown"
    /\ IF threshold = 0
       THEN poll' = "idle" /\ UNCHANGED <<fails, evidence>>
       ELSE /\ fails' = UpTo(fails + 1)
            /\ IF fails + 1 >= threshold
               THEN poll' = "purge" /\ evidence' = evidence \cup {unknown}
               ELSE poll' = "idle" /\ UNCHANGED evidence
    /\ UNCHANGED <<skipped, download, unknown>>

\* purge_delisted_symbol, as far as the watch goes; a success in between does not stop it.
PollPurge ==
    /\ poll = "purge"
    /\ skipped' = TRUE /\ fails' = 0 /\ poll' = "idle"
    /\ UNCHANGED <<download, unknown, evidence>>

\* The list of a download is made once, before its first fetch.
DownloadList(j) ==
    /\ download[j] = "idle" /\ ~skipped
    /\ download' = [download EXCEPT ![j] = "listed"]
    /\ UNCHANGED <<skipped, fails, poll, unknown, evidence>>

\* Mutant: every failure counts.
DownloadAnswerAny(j) ==
    /\ download[j] = "listed"
    /\ download' = [download EXCEPT ![j] = "idle"]
    /\ \E answer \in Answers :
         /\ Heard(answer)
         /\ LET success == answer \in {"candles", "old candles"}
                purge == ~success /\ threshold > 0 /\ fails + 1 >= threshold
            IN  /\ skipped' = (skipped \/ purge)
                /\ fails' = IF success \/ purge THEN 0 ELSE UpTo(fails + 1)
                /\ evidence' = IF purge THEN evidence \cup {unknown'} ELSE evidence
    /\ UNCHANGED poll

DownloadAnswer(j) ==
    /\ download[j] = "listed"
    /\ download' = [download EXCEPT ![j] = "idle"]
    /\ \E answer \in Answers :
         /\ Heard(answer)
         /\ LET success == answer \in {"candles", "old candles"}
                counted == answer = "no symbol"
                purge == counted /\ threshold > 0 /\ fails + 1 >= threshold
            IN  /\ skipped' = (skipped \/ purge)
                /\ fails' = IF success \/ purge THEN 0
                            ELSE IF counted THEN UpTo(fails + 1) ELSE fails
                /\ evidence' = IF purge THEN evidence \cup {unknown'} ELSE evidence
    /\ UNCHANGED poll

Next ==
    \/ PollList \/ PollAnswer \/ PollCount \/ PollPurge
    \/ \E j \in Downloads : DownloadList(j) \/ DownloadAnswer(j)

Spec == Init /\ [][Next]_watchVars

-----------------------------------------------------------------------------

TypeOK ==
    /\ skipped \in BOOLEAN /\ fails \in 0 .. MaxFails /\ unknown \in 0 .. MaxFails
    /\ poll \in {"idle", "listed", "unknown", "purge"}
    /\ download \in [Downloads -> {"idle", "listed"}]
    /\ evidence \subseteq 0 .. MaxFails

\* A symbol is purged on the exchange's word: at the decision it has been called
\* unknown threshold times since candles last came, the one answer the poll may hold
\* uncounted left aside; rate limits and old candles never add up to a delisting.
PurgeNeedsWord == \A n \in evidence : n >= threshold - 1

=============================================================================
