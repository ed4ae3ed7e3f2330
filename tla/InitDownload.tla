---------------------------- MODULE InitDownload ----------------------------
(***************************************************************************)
(* The resumable download of the factory tarball                           *)
(* (bmc-nix/src/store/init_download.rs), run under the init lock, so by one *)
(* process at a time.  The download directory has three names: the         *)
(* verified tarball, the partial one and the sidecar that says which       *)
(* signed release the partial belongs to.                                  *)
(*                                                                         *)
(* A file is the sequence of its units, each the release it came from; a   *)
(* file without units is no file.  A sidecar that is torn reads as none.   *)
(* As in StoreInit, disk holds the directories a power loss may leave, and *)
(* contents that were not flushed may come back cut short or damaged.      *)
(*                                                                         *)
(* The server is external: it may answer anything the code tells apart.    *)
(***************************************************************************)
EXTENDS Naturals, Sequences

CONSTANTS
  Releases,        \* factory releases
  Size,            \* the length of the tarball of each
  Nothing,         \* no release, no tag, no sidecar, damaged content
  RetryDelays,     \* length of RETRY_DELAYS
  MaxRetries,      \* MAX_SIGNED_RETRIES
  MaxRuns,         \* bound on the runs of a behaviour
  MaxPublishes,    \* bound on releases published
  MaxCrashes       \* bound on kills and on power losses

ASSUME DownloadAssumption ==
  /\ Size \in [Releases -> Nat \ {0}]
  /\ Nothing \notin Releases
  /\ {RetryDelays, MaxRetries, MaxRuns, MaxPublishes, MaxCrashes} \subseteq Nat

VARIABLES
  dir,       \* the download directory
  disk,      \* the directories a power loss may leave
  flushed,   \* the units of the partial file are on stable storage
  run,       \* the run in progress
  server,    \* the release the server has, and whether it sends entity tags
  wronged,   \* the server did not serve this run as it should
  runs, publishes, crashes

vars == <<dir, disk, flushed, run, server, wronged, runs, publishes, crashes>>

RangedErrorsBeforePlain == 2

NoFile == <<>>
Genuine(r) == [k \in 1..Size[r] |-> r]

\* DownloadMetadata; 0 is a total not known.
Sidecar(sig, etag, total) == [sig |-> sig, etag |-> etag, total |-> total]
NoSidecar == Sidecar(Nothing, Nothing, 0)

EmptyDir == [final |-> NoFile, part |-> NoFile, side |-> NoSidecar]

\* The body being received: how it continues the partial file (how), of which
\* release, how many units it has left, where it started and what it makes the
\* total (0: not told).
NoBody == [how |-> "none", of |-> Nothing, left |-> 0, start |-> 0, total |-> 0]

IdleRun ==
  [pc |-> "idle", want |-> Nothing, signed |-> TRUE, meta |-> NoSidecar, refused |-> FALSE,
   errors |-> 0, failures |-> 0, streak |-> 0, spent |-> FALSE, body |-> NoBody]

Init ==
  /\ dir = EmptyDir /\ disk = {EmptyDir} /\ flushed = FALSE
  /\ run = IdleRun
  /\ server \in [has : Releases, tags : BOOLEAN]
  /\ wronged = FALSE
  /\ runs = 0 /\ publishes = 0 /\ crashes = 0

-----------------------------------------------------------------------------
(* Files.                                                                  *)

\* The directory goes through the states of s, one operation after another.
Writes(s) == dir' = s[Len(s)] /\ disk' = disk \cup {s[i] : i \in DOMAIN s}
Keep == UNCHANGED <<dir, disk>>

WithoutPart(d) == [d EXCEPT !.part = NoFile]
WithoutSide(d) == [d EXCEPT !.side = NoSidecar]

\* remove_artifact of the partial file and the sidecar; clear_all.
DropPartial == Writes(<<WithoutPart(dir), WithoutSide(WithoutPart(dir))>>)
ClearAll ==
  LET d == [dir EXCEPT !.final = NoFile]
  IN  Writes(<<d, WithoutPart(d), WithoutSide(WithoutPart(d))>>)

\* fsync_dir.
SyncDir == disk' = {dir} /\ UNCHANGED dir

\* What becomes of contents that were not flushed.
Torn(c) == {SubSeq(c, 1, k) : k \in 0..Len(c)} \cup {[c EXCEPT ![k] = Nothing] : k \in 1..Len(c)}

-----------------------------------------------------------------------------
(* FailureBudget.                                                          *)

Goto(pc) == run' = [run EXCEPT !.pc = pc, !.body = NoBody]
Serving == UNCHANGED <<server, runs, publishes, crashes>>
Quietly == UNCHANGED <<flushed, wronged>> /\ Serving
Wronged == wronged' = TRUE /\ UNCHANGED flushed /\ Serving

\* retry, for the feed and for unsigned downloads.
RetriedUnsigned(pc) ==
  LET f == run.failures + 1
  IN  [run EXCEPT !.failures = f, !.body = NoBody,
                  !.pc = IF f > RetryDelays THEN "failed" ELSE pc]

\* Mutant: a little progress refills the whole budget.
RetriedRefilled(made) ==
  LET f == IF made THEN 0 ELSE run.failures + 1
      s == IF made THEN 0 ELSE run.streak + 1
  IN  [run EXCEPT !.failures = f, !.streak = s, !.body = NoBody,
                  !.pc = IF f > MaxRetries \/ s > RetryDelays THEN "failed" ELSE "request"]

\* retry_signed, after an attempt that made progress or none.
RetriedSigned(made) ==
  LET f == run.failures + 1
      s == IF made THEN 0 ELSE run.streak + 1
  IN  [run EXCEPT !.failures = f, !.streak = s, !.body = NoBody,
                  !.pc = IF f > MaxRetries \/ s > RetryDelays THEN "failed" ELSE "request"]

Retried(made) == IF run.signed THEN RetriedSigned(made) ELSE RetriedUnsigned("request")

-----------------------------------------------------------------------------
(* init_store, up to the transfer.                                         *)

\* Signatures are verified or not, as the caller's configuration has it.
Begin ==
  /\ run.pc = "idle"
  /\ runs < MaxRuns
  /\ runs' = runs + 1
  /\ \E s \in BOOLEAN : run' = [IdleRun EXCEPT !.pc = "feed", !.signed = s]
  /\ wronged' = FALSE
  /\ UNCHANGED <<dir, disk, flushed, server, publishes, crashes>>

\* fetch_feed names the release; download starts with a budget of its own.
FetchFeed ==
  /\ run.pc = "feed"
  /\ \/ run' = [run EXCEPT !.pc = "open", !.want = server.has, !.failures = 0] /\ Quietly
     \/ run' = RetriedUnsigned("feed") /\ Quietly
     \/ Goto("failed") /\ Wronged
  /\ Keep

\* reuse_final, or clear_all before an unsigned download.
Open ==
  /\ run.pc = "open"
  /\ \/ run.signed /\ dir.final = NoFile /\ Keep /\ Goto("prepare")
     \/ run.signed /\ dir.final = Genuine(run.want) /\ DropPartial /\ Goto("done")
     \/ run.signed /\ dir.final \notin {NoFile, Genuine(run.want)} /\ ClearAll /\ Goto("prepare")
     \/ ~run.signed /\ ClearAll /\ Goto("request")
  /\ Quietly

PrepareSigned ==
  /\ run.pc = "prepare"
  /\ \/ /\ dir.side.sig = run.want
        /\ run' = [run EXCEPT !.pc = "request", !.meta = dir.side]
        /\ Keep
     \/ /\ dir.side.sig # run.want
        /\ run' = [run EXCEPT !.pc = "request", !.meta = Sidecar(run.want, Nothing, 0)]
        /\ DropPartial
  /\ Quietly

-----------------------------------------------------------------------------
(* A request, and the answers to it.                                       *)

Offset == IF run.refused \/ ~run.signed THEN 0 ELSE Len(dir.part)
Ranged == Offset > 0
Asking == run.pc = "request" /\ Keep
Etag == IF server.tags THEN server.has ELSE Nothing

\* The server has another release than the feed named.
Stray == wronged' = (wronged \/ server.has # run.want) /\ UNCHANGED flushed /\ Serving

\* Mutant: a transport error costs the range.
BlipRefusing == Asking /\ run' = [Retried(FALSE) EXCEPT !.refused = TRUE] /\ Quietly

\* send: no connection, no answer in time.
Blip == Asking /\ run' = Retried(FALSE) /\ Quietly

\* A status worth a retry; ranged requests are given up after two in a row.
Busy ==
  LET n == IF Ranged THEN run.errors + 1 ELSE run.errors
  IN  /\ Asking
      /\ run' = [Retried(FALSE) EXCEPT !.errors = n,
                                       !.refused = @ \/ n >= RangedErrorsBeforePlain]
      /\ Wronged

\* 501 names the request, so it rejects a range but is retried without one.
NotImplemented ==
  /\ Asking
  /\ run' = IF Ranged THEN [run EXCEPT !.refused = TRUE] ELSE Retried(FALSE)
  /\ Wronged

\* Any other status, or a 200 or 206 that cannot be used.
Unusable ==
  /\ Asking
  /\ run' = IF Ranged THEN [run EXCEPT !.refused = TRUE] ELSE [run EXCEPT !.pc = "failed"]
  /\ Wronged

\* 416: there is nothing after the partial file.
NotSatisfiable ==
  /\ Asking /\ Ranged
  /\ Goto("verify")
  /\ IF Offset < Size[server.has] THEN Wronged ELSE Stray

\* 206 with n units from Offset on; resume_disposition.
Continues ==
  /\ run.meta.total \in {0, Size[server.has]}
  /\ run.meta.etag = Nothing \/ Etag = Nothing \/ run.meta.etag = Etag

PartialContent ==
  /\ Asking /\ Ranged
  /\ \E n \in 1..(Size[server.has] - Offset) :
       run' = IF Continues
                THEN [run EXCEPT !.pc = IF run.meta.total = 0 THEN "unpublish" ELSE "stream",
                                 !.meta.total = Size[server.has], !.errors = 0,
                                 !.body = [how |-> "resume", of |-> server.has, left |-> n,
                                           start |-> Offset, total |-> Size[server.has]]]
                ELSE [run EXCEPT !.refused = TRUE]
  /\ Stray

\* 200, its length declared or not: accept_restart, or an unsigned transfer.
\* To a ranged request it is right only when the tag in If-Range is outdated.
Full ==
  /\ Asking
  /\ \E total \in {0, Size[server.has]} :
       run' = [run EXCEPT !.pc = IF run.signed THEN "restart" ELSE "truncate",
                          !.refused = FALSE, !.errors = 0,
                          !.meta = Sidecar(run.want, Etag, total),
                          !.body = [how |-> "restart", of |-> server.has,
                                    left |-> Size[server.has], start |-> 0, total |-> total]]
  /\ IF Ranged /\ run.meta.etag \in {Nothing, Etag} THEN Wronged ELSE Stray

Answer ==
  Blip \/ Busy \/ NotImplemented \/ Unusable \/ NotSatisfiable \/ PartialContent \/ Full

-----------------------------------------------------------------------------
(* Taking the body to disk.                                                *)

\* The partial file goes before the sidecar that describes its successor.
Restart ==
  /\ run.pc = "restart"
  /\ Writes(<<WithoutPart(dir)>>)
  /\ run' = [run EXCEPT !.pc = "unpublish"]
  /\ Quietly

\* publish_metadata removes the old sidecar, writes the new one and syncs.
Unpublish ==
  /\ run.pc = "unpublish"
  /\ Writes(<<WithoutSide(dir)>>)
  /\ run' = [run EXCEPT !.pc = "publish"]
  /\ Quietly

Publish ==
  /\ run.pc = "publish"
  /\ dir' = [dir EXCEPT !.side = run.meta]
  /\ disk' = {dir'}
  /\ run' = [run EXCEPT !.pc = "stream"]
  /\ Quietly

\* open_part truncates for an unsigned transfer.
Truncate ==
  /\ run.pc = "truncate"
  /\ Writes(<<WithoutPart(dir)>>)
  /\ run' = [run EXCEPT !.pc = "stream"]
  /\ Quietly

Chunk ==
  /\ run.pc = "stream"
  /\ run.body.left > 0
  /\ Writes(<<[dir EXCEPT !.part = Append(@, run.body.of)]>>)
  /\ flushed' = FALSE
  /\ run' = [run EXCEPT !.body.left = @ - 1]
  /\ UNCHANGED wronged /\ Serving

\* The transfer breaks off or stalls, if its length is not known even at the end.
Breaks ==
  /\ run.pc = "stream"
  /\ run.body.left > 0 \/ run.body.total = 0
  /\ run' = Retried(Len(dir.part) > run.body.start)
  /\ Keep /\ Quietly

\* The server sends more than it declared; the surplus is cut off again.
Overruns ==
  /\ run.pc = "stream"
  /\ run.body.left = 0 /\ run.body.total > 0
  /\ Goto("failed")
  /\ Keep /\ Wronged

Received ==
  /\ run.pc = "stream"
  /\ run.body.left = 0
  /\ run' = [run EXCEPT !.streak = 0, !.body = NoBody,
               !.pc = IF ~run.signed THEN "done"
                      ELSE IF run.body.how = "restart" THEN "verifyFresh"
                      ELSE IF Len(dir.part) < run.body.total THEN "request" ELSE "verify"]
  /\ Keep /\ Quietly

-----------------------------------------------------------------------------
(* Verification, promotion and extraction.                                 *)

Verified == dir.part = Genuine(run.want)

\* Mutant: a retained partial that does not verify gets no clean retry.
VerifyCandidateOnce ==
  /\ run.pc = "verify"
  /\ \/ Verified /\ Goto("sync") /\ Keep
     \/ ~Verified /\ DropPartial /\ Goto("failed")
  /\ Quietly

VerifyCandidate ==
  /\ run.pc = "verify"
  /\ \/ Verified /\ Goto("sync") /\ Keep
     \/ ~Verified /\ run.spent /\ DropPartial /\ Goto("failed")
     \/ /\ ~Verified /\ ~run.spent
        /\ Writes(<<WithoutPart(dir)>>)
        /\ run' = [run EXCEPT !.pc = "request", !.spent = TRUE]
  /\ Quietly

VerifyFresh ==
  /\ run.pc = "verifyFresh"
  /\ \/ Verified /\ Goto("sync") /\ Keep
     \/ ~Verified /\ DropPartial /\ Goto("failed")
  /\ Quietly

\* promote: contents first, then the name, then the sidecar.  To sync a file is
\* to commit the journal, with every operation before it.

\* Mutant: the contents are not synced before they are named.
SyncPartSkipped == run.pc = "sync" /\ Goto("rename") /\ Keep /\ Quietly

SyncPart ==
  /\ run.pc = "sync"
  /\ flushed' = TRUE
  /\ SyncDir
  /\ Goto("rename")
  /\ UNCHANGED wronged /\ Serving

Rename ==
  /\ run.pc = "rename"
  /\ LET d == [dir EXCEPT !.final = dir.part, !.part = NoFile]
     IN  /\ dir' = d
         /\ disk' = disk \cup {d} \cup
                    IF flushed THEN {} ELSE {[d EXCEPT !.final = c] : c \in Torn(dir.part)}
  /\ Goto("named")
  /\ Quietly

Named == run.pc = "named" /\ SyncDir /\ Goto("unsidecar") /\ Quietly

DropSidecar == run.pc = "unsidecar" /\ Writes(<<WithoutSide(dir)>>) /\ Goto("done") /\ Quietly

\* The tarball is extracted; cleanup, unless a signed one may be used again.
Extracted ==
  /\ run.pc = "done"
  /\ \/ ClearAll
     \/ run.signed /\ Keep
  /\ Goto("idle")
  /\ Quietly

\* A failed unsigned download leaves nothing behind.
Failed ==
  /\ run.pc = "failed"
  /\ IF run.signed \/ run.want = Nothing THEN Keep ELSE ClearAll
  /\ Goto("idle")
  /\ Quietly

-----------------------------------------------------------------------------
(* The world around.                                                       *)

NewRelease ==
  /\ publishes < MaxPublishes
  /\ publishes' = publishes + 1
  /\ \E r \in Releases \ {server.has} : server' = [server EXCEPT !.has = r]
  /\ UNCHANGED <<dir, disk, flushed, run, wronged, runs, crashes>>

\* The process is killed, or an operation on a file fails.
Killed ==
  /\ run.pc # "idle"
  /\ crashes < MaxCrashes
  /\ crashes' = crashes + 1
  /\ run' = IdleRun
  /\ UNCHANGED <<dir, disk, flushed, server, wronged, runs, publishes>>

PowerLoss ==
  /\ crashes < MaxCrashes
  /\ crashes' = crashes + 1
  /\ \E d \in disk :
       \E c \in IF flushed THEN {d.part} ELSE Torn(d.part) :
         dir' = [d EXCEPT !.part = c] /\ disk' = {dir'}
  /\ flushed' = FALSE
  /\ run' = IdleRun
  /\ UNCHANGED <<server, wronged, runs, publishes>>

Step ==
  \/ FetchFeed \/ Open \/ PrepareSigned \/ Answer
  \/ Restart \/ Unpublish \/ Publish \/ Truncate \/ Chunk \/ Breaks \/ Overruns \/ Received
  \/ VerifyCandidate \/ VerifyFresh \/ SyncPart \/ Rename \/ Named \/ DropSidecar
  \/ Extracted \/ Failed

Next == Begin \/ Step \/ NewRelease \/ Killed \/ PowerLoss

Spec == Init /\ [][Next]_vars

\* Every await of a run ends: requests and chunks have an idle timeout.  What
\* the server answers is not constrained.
FairSpec == Spec /\ WF_vars(Step)

-----------------------------------------------------------------------------
\* promote: through every crash, the name of the final tarball stands for
\* complete, verified contents or for nothing; and what was verified is never
\* fetched again, because a power loss leaves it under one of its two names.
FinalIsWhole ==
  /\ \A d \in disk : d.final \in {NoFile} \cup {Genuine(r) : r \in Releases}
  /\ run.signed /\ run.pc \in {"rename", "named", "unsidecar", "done"} =>
       \A d \in disk : \/ d.final = Genuine(run.want)
                       \/ d.part = Genuine(run.want) /\ d.side.sig = run.want

\* verify_candidate: whatever earlier runs, kills and power losses left in the
\* directory, a run whose server serves it well succeeds, or gives up only
\* after a full budget of broken connections.
LeftoversDoNoHarm ==
  run.pc = "failed" =>
    \/ wronged
    \/ run.signed /\ (run.failures > MaxRetries \/ run.streak > RetryDelays)
    \/ (~run.signed \/ run.want = Nothing) /\ run.failures > RetryDelays

\* RANGED_ERRORS_BEFORE_PLAIN: "a network blip must not cost the partial": in
\* the loop of a run, units of the wanted release, under a sidecar that gives no
\* other length, are not dropped, unless the server gave a reason in this run.
BlipsKeepThePartial ==
  [][run.signed /\ run.pc \in {"request", "restart", "stream", "verify"} /\ run'.pc # "idle"
       /\ dir.part \in {SubSeq(Genuine(run.want), 1, k) : k \in 0..Size[run.want]}
       /\ dir.side.total \in {0, Size[run.want]} /\ ~wronged'
     => Len(dir'.part) >= Len(dir.part)]_vars

\* FailureBudget: whatever the server answers, a run ends, and the init lock
\* is given back.
DownloadEnds == run.pc # "idle" ~> run.pc = "idle"
=============================================================================
