------------------------------- MODULE JobParts -------------------------------
(***************************************************************************)
(* The background jobs: candles, delisting, screening and tuning.          *)
(* Each is an instance with parameters and state of its own; names that    *)
(* several components have carry the instance they belong to.              *)
(***************************************************************************)
EXTENDS Integers, Sequences, FiniteSets

-----------------------------------------------------------------------------
CONSTANTS Page, base, Buffer, max_requests, backfill_enabled, Unusable,
          candles_Jobs, Starts, candles_Horizon, MaxFaults

VARIABLES candles_now, stored, candles_job, faults, seeded, blind, lost, seams,
          stale

Candles == INSTANCE CandleDownload WITH
          Jobs <- candles_Jobs, Horizon <- candles_Horizon, now <- candles_now,
          job <- candles_job

ASSUME CandlesAssumed == Candles!DownloadAssumption

\* With the backfill enabled, and above the bar recorded before all others, there is a
\* hole below a stored bar only where a bar cannot be used, where its write failed, or
\* where a failed read hid the gap: engine stops, overlapping jobs, backfills cut short
\* and bars closing meanwhile leave none but the first bar of a gap of exactly a page,
\* when one more bar closes before it is fetched.
HolesNeedFailure == Candles!HolesNeedFailure

\* A bar recorded while it was forming is recorded again once it has closed and
\* newer bars are stored, except at the foot of a gap as long as a page, after a
\* failure, or when a job that fetched earlier sets it back or writes it behind newer ones.
PartialOnlyAtSeams == Candles!PartialOnlyAtSeams

-----------------------------------------------------------------------------
CONSTANTS threshold, Downloads, MaxFails

VARIABLES skipped, fails, poll, download, unknown, evidence

Delist == INSTANCE DelistWatch

ASSUME DelistAssumed == Delist!WatchAssumption

\* A symbol is purged on the exchange's word: at the decision it has been called
\* unknown threshold times since candles last came, the one answer the poll may hold
\* uncounted left aside; rate limits and old candles never add up to a delisting.
PurgeNeedsWord == Delist!PurgeNeedsWord

-----------------------------------------------------------------------------
CONSTANTS screen_Candidates, Pinned, screen_Boot, top_n, max_workers, screen_Jobs,
          screen_Rounds

VARIABLES workers, screener, screen_rounds, selected, refused, gone, overlap

Screen == INSTANCE Screener WITH
          Candidates <- screen_Candidates, Boot <- screen_Boot, Jobs <- screen_Jobs,
          Rounds <- screen_Rounds, rounds <- screen_rounds

ASSUME ScreenAssumed == Screen!ScreenerAssumption

\* The pool is what was selected last, besides pinned symbols, what was purged since
\* and what a full pool refused, unless two jobs overlapped: the long scoring between
\* the two looks at the pool costs nothing else.
SelectionInForce == Screen!SelectionInForce

-----------------------------------------------------------------------------
CONSTANTS tuning_Strategies, tuning_Fallback, Slots, tuning_Rounds

VARIABLES live_strategy, params, tuning_job, temp, disk, crossed, raced,
          tuning_rounds

Tuning == INSTANCE TuningJobs WITH
          Strategies <- tuning_Strategies, Fallback <- tuning_Fallback,
          Rounds <- tuning_Rounds, job <- tuning_job, rounds <- tuning_rounds

ASSUME TuningAssumed == Tuning!TuningAssumption

\* The stops and targets in force were searched for the strategy in force (the fallback
\* while none is chosen), unless the job that set them ran beside another one.
TunedForStrategy == Tuning!TunedForStrategy

\* What is on disk can be read back after a stop at any moment: a torn file needs two
\* jobs of the same kind sealing at once through the one temporary name.
SealedIsWhole == Tuning!SealedIsWhole

=============================================================================
