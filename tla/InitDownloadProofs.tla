------------------------ MODULE InitDownloadProofs -------------------------
(***************************************************************************)
(* Proofs about the resumable download of InitDownload, for any releases   *)
(* of any size, any budgets, and any number of runs, published releases,   *)
(* kills and power losses, whatever the server answers.                    *)
(***************************************************************************)
EXTENDS InitDownload, SequenceTheorems, TLAPS

-----------------------------------------------------------------------------
(* The inductive invariant.                                                *)

Units == Releases \cup {Nothing}
Sides == [sig : Units, etag : Units, total : Nat]
Dirs == [final : Seq(Units), part : Seq(Units), side : Sides]
Bodies == [how : {"none", "resume", "restart"}, of : Units, left : Nat, start : Nat, total : Nat]
Promoting == {"sync", "rename", "named", "unsidecar"}
Taking == {"restart", "unpublish", "publish"}
Pcs ==
  {"idle", "feed", "open", "prepare", "request", "truncate", "stream", "verify", "verifyFresh",
   "done", "failed"} \cup Taking \cup Promoting
Runs ==
  [pc : Pcs, want : Units, signed : BOOLEAN, meta : Sides, refused : BOOLEAN,
   errors : Nat, failures : Nat, streak : Nat, spent : BOOLEAN, body : Bodies]

\* n units of release r.
Copies(r, n) == [k \in 1..n |-> r]

\* The first unit of a partial file is of the release its sidecar has the tag of.
Tagged(part, side) == part # NoFile /\ part[1] \in Releases => side.etag \in {Nothing, part[1]}

\* The directory, and what a power loss may make of it: a final tarball is whole,
\* and it stays, or what it was renamed from.
DiskOK ==
  /\ dir \in disk /\ disk \subseteq Dirs
  /\ server \in [has : Releases, tags : BOOLEAN]
  /\ \A d \in disk : Tagged(d.part, d.side) /\ (~server.tags => d.side.etag = Nothing)
  /\ \A d \in disk : d.final \in {NoFile} \cup {Genuine(r) : r \in Releases}
  /\ \A r \in Releases : dir.final = Genuine(r) =>
       \A d \in disk : d.final = Genuine(r) \/ (d.part = Genuine(r) /\ d.side.sig = r)

RunTyped == run \in Runs /\ {flushed, wronged} \subseteq BOOLEAN

\* What a run knows of its release.
Wanted ==
  /\ run.pc = "feed" => run.want = Nothing
  /\ run.pc \notin {"idle", "feed", "failed"} => run.want \in Releases
  /\ run.pc \in Taking \cup Promoting \cup {"prepare", "verify", "verifyFresh"} => run.signed = TRUE
  /\ run.pc = "truncate" => run.signed = FALSE
  /\ run.pc \in {"feed", "open", "prepare"} => run.spent = FALSE /\ run.refused = FALSE

TagsFollow ==
  /\ ~server.tags => run.meta.etag = Nothing
  /\ run.pc \in {"unpublish", "publish"} => Tagged(dir.part, run.meta)
  /\ ~run.signed /\ run.pc \in {"request", "truncate", "stream"} => dir.side.etag = Nothing

\* The sidecar of a signed run.
SidecarFollows ==
  run.signed =>
    /\ run.pc \in Taking \cup {"request", "stream", "verify", "verifyFresh"} => run.meta.sig = run.want
    /\ run.pc = "request" /\ dir.part # NoFile => dir.side = run.meta
    /\ run.pc \in {"stream", "verify", "verifyFresh"} => dir.side = run.meta
    /\ run.pc \in {"sync", "rename"} => dir.side.sig = run.want /\ dir.part = Genuine(run.want)

\* The body a signed run takes to disk.
BodyFollows ==
  run.signed /\ run.pc \in Taking \cup {"stream"} =>
    /\ run.refused = FALSE
    /\ run.body.how = "restart" =>
         /\ run.meta.etag \in {Nothing, run.body.of}
         /\ run.pc \in {"unpublish", "publish"} => dir.part = NoFile
    /\ run.body.how # "restart" => run.body.how = "resume" /\ dir.part # NoFile /\ run.pc # "restart"
    /\ ~wronged =>
         /\ run.body.of = run.want
         /\ run.body.how = "restart" /\ run.pc # "stream" => run.body.left = Size[run.want]
         /\ run.body.how = "restart" /\ run.pc = "stream" =>
              \E k \in Nat : dir.part = Copies(run.want, k) /\ k + run.body.left = Size[run.want]
         /\ run.body.how = "resume" => run.body.total = Size[run.want]
         /\ run.body.how = "resume" /\ run.spent =>
              \E k \in Nat : dir.part = Copies(run.want, k) /\ k + run.body.left <= Size[run.want]

\* What a run that was served well knows of the partial file.
PartFollows ==
  run.signed /\ ~wronged =>
    /\ run.pc = "request" /\ run.spent =>
         \E k \in Nat : dir.part = Copies(run.want, k) /\ k <= Size[run.want]
    /\ run.pc = "verify" => Len(dir.part) >= Size[run.want]
    /\ run.pc = "verifyFresh" \/ (run.pc = "verify" /\ run.spent) => dir.part = Genuine(run.want)
    /\ /\ run.pc = "restart" \/ (run.pc = "request" /\ run.refused)
       /\ dir.part # NoFile /\ dir.part[1] = run.want
       => dir.side.total \notin {0, Size[run.want]}

\* From its verification on.
PromotionFollows ==
  /\ run.pc = "rename" => flushed = TRUE /\ disk = {dir}
  /\ run.signed /\ run.pc \in {"named", "unsidecar", "done"} => dir.final = Genuine(run.want)

RunOK ==
  /\ RunTyped /\ Wanted /\ TagsFollow /\ SidecarFollows /\ BodyFollows /\ PartFollows
  /\ PromotionFollows /\ LeftoversDoNoHarm

DInv == DiskOK /\ RunOK

-----------------------------------------------------------------------------
(* Files.                                                                  *)

LEMMA Sizes == \A r \in Releases : Size[r] \in Nat /\ Size[r] > 0
BY DownloadAssumption

LEMMA CopiesGrow ==
  ASSUME NEW r \in Units, NEW n \in Nat
  PROVE  /\ Copies(r, n) \in Seq(Units) /\ Len(Copies(r, n)) = n
         /\ Append(Copies(r, n), r) = Copies(r, n + 1)
         /\ n > 0 => Copies(r, n) # NoFile /\ Copies(r, n)[1] = r
<1>1. Copies(r, n) \in Seq(Units) /\ Len(Copies(r, n)) = n
  BY IsASeq DEF Copies
<1>2. Copies(r, n + 1) \in Seq(Units) /\ Len(Copies(r, n + 1)) = n + 1
  BY IsASeq DEF Copies
<1>3. /\ Append(Copies(r, n), r) \in Seq(Units) /\ Len(Append(Copies(r, n), r)) = n + 1
      /\ \A i \in 1..n : Append(Copies(r, n), r)[i] = Copies(r, n)[i]
      /\ Append(Copies(r, n), r)[n + 1] = r
  BY <1>1, AppendProperties
<1>4. \A i \in 1..n + 1 : Append(Copies(r, n), r)[i] = Copies(r, n + 1)[i]
  BY <1>3 DEF Copies
<1>5. Append(Copies(r, n), r) = Copies(r, n + 1)
  BY <1>2, <1>3, <1>4, SeqEqual
<1>6. n > 0 => Copies(r, n) # NoFile /\ Copies(r, n)[1] = r
  BY <1>1 DEF Copies, NoFile
<1> QED
  BY <1>1, <1>5, <1>6

LEMMA GenuineIsCopies ==
  ASSUME NEW r \in Releases
  PROVE  /\ Genuine(r) = Copies(r, Size[r]) /\ Genuine(r) \in Seq(Units)
         /\ Len(Genuine(r)) = Size[r] /\ Genuine(r) # NoFile /\ Genuine(r)[1] = r
<1>1. Genuine(r) = Copies(r, Size[r])
  BY DEF Genuine, Copies
<1> DEFINE n == Size[r]
           c == Copies(r, n)
<1>2. n \in Nat /\ n > 0 /\ r \in Units
  BY Sizes DEF Units
<1> HIDE DEF n
<1>3. c \in Seq(Units) /\ Len(c) = n /\ c # NoFile /\ c[1] = r
  BY <1>2, CopiesGrow
<1> HIDE DEF c
<1> QED
  BY <1>1, <1>3 DEF c, n

\* New directories, all with the final tarball there is, or none.
LEMMA DiskGrows ==
  ASSUME DiskOK, NEW D, D \subseteq Dirs, dir' \in D, disk' = disk \cup D,
         dir'.final \in {dir.final, NoFile},
         \A d \in D : /\ d.final = dir'.final /\ Tagged(d.part, d.side)
                      /\ ~server.tags => d.side.etag = Nothing,
         UNCHANGED server
  PROVE  DiskOK'
<1>1. \A r \in Releases : Genuine(r) # NoFile
  BY GenuineIsCopies
<1>2. \A d \in disk' : d.final \in {NoFile} \cup {Genuine(r) : r \in Releases}
  BY DEF DiskOK
<1>3. \A r \in Releases : dir'.final = Genuine(r) =>
        \A d \in disk' : d.final = Genuine(r) \/ (d.part = Genuine(r) /\ d.side.sig = r)
  BY <1>1 DEF DiskOK
<1> QED
  BY <1>2, <1>3 DEF DiskOK, Genuine, Tagged

LEMMA DiskSynced ==
  ASSUME DiskOK, dir' \in Dirs, disk' = {dir'},
         dir'.final \in {NoFile} \cup {Genuine(r) : r \in Releases},
         Tagged(dir'.part, dir'.side), ~server.tags => dir'.side.etag = Nothing,
         UNCHANGED server
  PROVE  DiskOK'
BY DEF DiskOK, Genuine, Tagged

LEMMA DiskKept ==
  ASSUME DiskOK, Keep, server'.tags = server.tags, server' \in [has : Releases, tags : BOOLEAN]
  PROVE  DiskOK'
BY DEF DiskOK, Keep, Genuine, Tagged

LEMMA SyncDirSafe ==
  ASSUME DiskOK, SyncDir, UNCHANGED server
  PROVE  DiskOK' /\ dir' = dir /\ disk' = {dir'}
<1>1. dir' = dir /\ disk' = {dir'} /\ dir \in disk /\ dir \in Dirs
  BY DEF SyncDir, DiskOK
<1>2. DiskOK'
  BY <1>1, DiskSynced DEF DiskOK
<1> QED
  BY <1>1, <1>2

LEMMA WritesSteps ==
  ASSUME NEW a, NEW b, NEW c
  PROVE  /\ Writes(<<a>>) => dir' = a /\ disk' = disk \cup {a}
         /\ Writes(<<a, b>>) => dir' = b /\ disk' = disk \cup {a, b}
         /\ Writes(<<a, b, c>>) => dir' = c /\ disk' = disk \cup {a, b, c}
BY DEF Writes

LEMMA DirFields ==
  ASSUME NEW d \in Dirs
  PROVE  /\ WithoutPart(d) \in Dirs /\ WithoutPart(d).part = NoFile
         /\ WithoutPart(d).final = d.final /\ WithoutPart(d).side = d.side
         /\ WithoutSide(d) \in Dirs /\ WithoutSide(d).side = NoSidecar
         /\ WithoutSide(d).final = d.final /\ WithoutSide(d).part = d.part
         /\ NoSidecar \in Sides /\ NoSidecar.etag = Nothing /\ NoSidecar.total = 0
         /\ Tagged(WithoutPart(d).part, WithoutPart(d).side)
         /\ Tagged(WithoutSide(d).part, WithoutSide(d).side)
<1>1. NoSidecar \in Sides /\ NoSidecar.etag = Nothing /\ NoSidecar.total = 0
  BY DEF NoSidecar, Sidecar, Sides, Units
<1>2. NoFile \in Seq(Units)
  BY EmptySeq DEF NoFile
<1> QED
  BY <1>1, <1>2 DEF WithoutPart, WithoutSide, Dirs, Tagged

LEMMA DropPartSafe ==
  ASSUME DiskOK, Writes(<<WithoutPart(dir)>>), UNCHANGED server
  PROVE  DiskOK' /\ dir'.part = NoFile /\ dir'.final = dir.final /\ dir'.side = dir.side
<1>1. dir \in Dirs /\ (~server.tags => dir.side.etag = Nothing)
  BY DEF DiskOK
<1> DEFINE D == {WithoutPart(dir)}
<1>2. dir' = WithoutPart(dir) /\ disk' = disk \cup D
  BY WritesSteps
<1>3. /\ dir' \in D /\ D \subseteq Dirs /\ dir'.final = dir.final
      /\ \A d \in D : d.final = dir.final /\ Tagged(d.part, d.side) /\ d.side = dir.side
  BY <1>1, <1>2, DirFields
<1> HIDE DEF D
<1>4. DiskOK'
  BY <1>1, <1>2, <1>3, DiskGrows
<1> QED
  BY <1>1, <1>2, <1>4, DirFields

LEMMA DropSideSafe ==
  ASSUME DiskOK, Writes(<<WithoutSide(dir)>>), UNCHANGED server
  PROVE  DiskOK' /\ dir'.part = dir.part /\ dir'.final = dir.final
<1>1. dir \in Dirs
  BY DEF DiskOK
<1> DEFINE D == {WithoutSide(dir)}
<1>2. dir' = WithoutSide(dir) /\ disk' = disk \cup D
  BY WritesSteps
<1>3. /\ dir' \in D /\ D \subseteq Dirs /\ dir'.final = dir.final
      /\ \A d \in D : d.final = dir.final /\ Tagged(d.part, d.side) /\ d.side.etag = Nothing
  BY <1>1, <1>2, DirFields
<1> HIDE DEF D
<1>4. DiskOK'
  BY <1>2, <1>3, DiskGrows
<1> QED
  BY <1>1, <1>2, <1>4, DirFields

LEMMA DropPartialSafe ==
  ASSUME DiskOK, DropPartial, UNCHANGED server
  PROVE  DiskOK' /\ dir'.part = NoFile /\ dir'.final = dir.final /\ dir'.side.etag = Nothing
<1>1. dir \in Dirs /\ (~server.tags => dir.side.etag = Nothing)
  BY DEF DiskOK
<1> DEFINE d1 == WithoutPart(dir)
           d2 == WithoutSide(d1)
           D == {d1, d2}
<1>2. dir' = d2 /\ disk' = disk \cup D
  BY WritesSteps DEF DropPartial
<1>3. /\ d1 \in Dirs /\ d1.final = dir.final /\ Tagged(d1.part, d1.side) /\ d1.side = dir.side
      /\ d1.part = NoFile
  BY <1>1, DirFields
<1>4. /\ d2 \in Dirs /\ d2.final = dir.final /\ Tagged(d2.part, d2.side) /\ d2.side.etag = Nothing
      /\ d2.part = NoFile
  BY <1>3, DirFields
<1> HIDE DEF d1, d2
<1>5. /\ dir' \in D /\ D \subseteq Dirs /\ dir'.final = dir.final
      /\ \A d \in D : /\ d.final = dir.final /\ Tagged(d.part, d.side)
                      /\ ~server.tags => d.side.etag = Nothing
  BY <1>1, <1>2, <1>3, <1>4
<1> HIDE DEF D
<1>6. DiskOK'
  BY <1>2, <1>5, DiskGrows
<1> QED
  BY <1>2, <1>4, <1>6

LEMMA ClearAllSafe ==
  ASSUME DiskOK, ClearAll, UNCHANGED server
  PROVE  DiskOK' /\ dir'.part = NoFile /\ dir'.final = NoFile /\ dir'.side.etag = Nothing
<1>1. /\ dir \in Dirs /\ Tagged(dir.part, dir.side)
      /\ ~server.tags => dir.side.etag = Nothing
  BY DEF DiskOK
<1> DEFINE d0 == [dir EXCEPT !.final = NoFile]
           d1 == WithoutPart(d0)
           d2 == WithoutSide(d1)
           D == {d0, d1, d2}
<1>2. dir' = d2 /\ disk' = disk \cup D
  BY WritesSteps DEF ClearAll
<1>3. d0 \in Dirs /\ d0.final = NoFile /\ d0.part = dir.part /\ d0.side = dir.side
  BY <1>1, EmptySeq DEF Dirs, NoFile
<1> HIDE DEF d0
<1>4. /\ d1 \in Dirs /\ d1.final = NoFile /\ Tagged(d1.part, d1.side) /\ d1.side = dir.side
      /\ d1.part = NoFile
  BY <1>3, DirFields
<1>5. /\ d2 \in Dirs /\ d2.final = NoFile /\ Tagged(d2.part, d2.side) /\ d2.side.etag = Nothing
      /\ d2.part = NoFile
  BY <1>4, DirFields
<1> HIDE DEF d1, d2
<1>6. /\ dir' \in D /\ D \subseteq Dirs /\ dir'.final = NoFile
      /\ \A d \in D : /\ d.final = NoFile /\ Tagged(d.part, d.side)
                      /\ ~server.tags => d.side.etag = Nothing
  BY <1>1, <1>2, <1>3, <1>4, <1>5
<1> HIDE DEF D
<1>7. DiskOK'
  BY <1>2, <1>6, DiskGrows
<1> QED
  BY <1>2, <1>5, <1>7

-----------------------------------------------------------------------------
(* Requests and answers.                                                   *)

\* A failed run has used up its budget, or was not served as it should be.
Reason(r, w) ==
  \/ w
  \/ r.signed /\ (r.failures > MaxRetries \/ r.streak > RetryDelays)
  \/ (~r.signed \/ r.want = Nothing) /\ r.failures > RetryDelays

LEMMA RetriedFields ==
  ASSUME run \in Runs, NEW made \in BOOLEAN, NEW q, q = Retried(made)
  PROVE  /\ q \in Runs /\ q.pc \in {"request", "failed"}
         /\ q.want = run.want /\ q.signed = run.signed /\ q.meta = run.meta
         /\ q.refused = run.refused /\ q.spent = run.spent /\ q.errors = run.errors
         /\ q.pc = "failed" => Reason(q, FALSE)
<1>0. /\ NoBody \in Bodies /\ run.failures + 1 \in Nat /\ run.streak + 1 \in Nat
      /\ {RetryDelays, MaxRetries} \subseteq Nat
      /\ "request" \in Pcs /\ "failed" \in Pcs
  BY DownloadAssumption DEF NoBody, Bodies, Units, Runs, Pcs
<1>1. CASE run.signed
  <2> DEFINE f == run.failures + 1
             t == IF made THEN 0 ELSE run.streak + 1
             p == IF f > MaxRetries \/ t > RetryDelays THEN "failed" ELSE "request"
  <2>1. q = [run EXCEPT !.failures = f, !.streak = t, !.body = NoBody, !.pc = p]
    BY <1>1 DEF Retried, RetriedSigned
  <2>2. /\ f \in Nat /\ t \in Nat /\ p \in {"request", "failed"}
        /\ p = "failed" => f > MaxRetries \/ t > RetryDelays
    BY <1>0
  <2> HIDE DEF f, t, p
  <2>3. /\ q \in Runs /\ q.pc = p /\ q.failures = f /\ q.streak = t
        /\ q.want = run.want /\ q.signed = run.signed /\ q.meta = run.meta
        /\ q.refused = run.refused /\ q.spent = run.spent /\ q.errors = run.errors
    <3> DEFINE b == [run EXCEPT !.failures = f, !.streak = t]
    <3>1. b \in Runs /\ b.failures = f /\ b.streak = t
          /\ b.want = run.want /\ b.signed = run.signed /\ b.meta = run.meta
          /\ b.refused = run.refused /\ b.spent = run.spent /\ b.errors = run.errors
      BY <2>2 DEF Runs
    <3>2. q = [b EXCEPT !.body = NoBody, !.pc = p] /\ p \in Pcs /\ NoBody \in Bodies
      BY <1>0, <2>1, <2>2
    <3> HIDE DEF b
    <3> QED
      BY <3>1, <3>2 DEF Runs
  <2> QED
    BY <1>1, <2>2, <2>3 DEF Reason
<1>2. CASE ~run.signed
  <2>1. q = RetriedUnsigned("request")
    BY <1>2 DEF Retried
  <2>2. /\ q \in Runs /\ q.pc \in {"request", "failed"}
        /\ q.want = run.want /\ q.signed = run.signed /\ q.meta = run.meta
        /\ q.refused = run.refused /\ q.spent = run.spent /\ q.errors = run.errors
        /\ q.pc = "failed" => q.failures > RetryDelays
    BY <1>0, <2>1 DEF RetriedUnsigned, Runs
  <2> QED
    BY <1>2, <2>2 DEF Reason
<1> QED
  BY <1>1, <1>2 DEF Runs

\* The next request, or none, with the partial file as it is.
LEMMA AsksAgain ==
  ASSUME DInv, Keep, UNCHANGED <<server, flushed>>,
         run.pc \in {"request", "stream"}, run' \in Runs, run'.pc \in {"request", "failed"},
         run'.want = run.want, run'.signed = run.signed, run'.meta = run.meta,
         run'.spent = run.spent,
         wronged' \in BOOLEAN, wronged => wronged',
         run'.refused /\ ~run.refused /\ run.signed /\ ~wronged'
           /\ dir.part # NoFile /\ dir.part[1] = run.want => dir.side.total \notin {0, Size[run.want]},
         run'.pc = "failed" => Reason(run', wronged')
  PROVE  DInv'
<1>0. /\ dir' = dir /\ disk' = disk /\ run \in Runs /\ run.want \in Releases
      /\ run.signed \in BOOLEAN /\ run.spent \in BOOLEAN /\ run.refused \in BOOLEAN
      /\ wronged \in BOOLEAN /\ flushed \in BOOLEAN
  BY DEF Keep, DInv, RunOK, RunTyped, Wanted, Runs
<1>1. DiskOK'
  BY DiskKept DEF DInv, DiskOK
<1>2. RunTyped' /\ Wanted'
  BY <1>0 DEF RunTyped, Wanted, Taking, Promoting
<1>3. TagsFollow'
  BY <1>0 DEF DInv, RunOK, TagsFollow
<1>4. SidecarFollows'
  BY <1>0 DEF DInv, RunOK, SidecarFollows, Taking
<1>5. BodyFollows' /\ PromotionFollows'
  BY DEF BodyFollows, PromotionFollows, Taking
<1>6. PartFollows'
  <2> SUFFICES ASSUME run.signed, ~wronged', run'.pc = "request"
               PROVE  PartFollows'
    BY <1>0 DEF PartFollows
  <2>1. ~wronged
    BY <1>0
  <2>2. run.spent => \E k \in Nat : dir.part = Copies(run.want, k) /\ k <= Size[run.want]
    <3>1. CASE run.pc = "request"
      BY <2>1, <3>1 DEF DInv, RunOK, PartFollows
    <3>2. CASE run.pc = "stream"
      <4>0. run.body.left \in Nat /\ Size[run.want] \in Nat
        BY <1>0, Sizes DEF Runs, Bodies
      <4>1. run.spent => \E k \in Nat : dir.part = Copies(run.want, k) /\ k + run.body.left <= Size[run.want]
        BY <2>1, <3>2, <4>0 DEF DInv, RunOK, BodyFollows
      <4> QED
        BY <4>0, <4>1
    <3> QED
      BY <3>1, <3>2
  <2>3. run'.refused /\ dir.part # NoFile /\ dir.part[1] = run.want
          => dir.side.total \notin {0, Size[run.want]}
    <3>1. CASE run.pc = "request"
      BY <1>0, <2>1, <3>1 DEF DInv, RunOK, PartFollows
    <3>2. CASE run.pc = "stream"
      BY <1>0, <2>1, <3>2 DEF DInv, RunOK, BodyFollows
    <3> QED
      BY <3>1, <3>2
  <2> QED
    BY <1>0, <2>2, <2>3 DEF PartFollows, Copies
<1>7. LeftoversDoNoHarm'
  BY DEF LeftoversDoNoHarm, Reason
<1> QED
  BY <1>1, <1>2, <1>3, <1>4, <1>5, <1>6, <1>7 DEF DInv, RunOK

LEMMA OffsetIsLen ==
  ASSUME DInv, run.pc = "request", Ranged
  PROVE  /\ run.signed /\ ~run.refused /\ Offset = Len(dir.part)
         /\ dir.part \in Seq(Units) /\ Len(dir.part) \in Nat /\ Len(dir.part) > 0
         /\ dir.part # NoFile /\ dir.side = run.meta
<1>1. ~(run.refused \/ ~run.signed)
  BY DEF Ranged, Offset
<1>2. Offset = Len(dir.part)
  BY <1>1 DEF Offset
<1>3. dir.part \in Seq(Units) /\ Len(dir.part) \in Nat /\ Len(dir.part) > 0
  BY <1>2, LenProperties DEF Ranged, DInv, DiskOK, Dirs
<1>4. dir.part # NoFile
  BY <1>3 DEF NoFile
<1> QED
  BY <1>1, <1>2, <1>3, <1>4 DEF DInv, RunOK, SidecarFollows

LEMMA RefusalsSafe ==
  ASSUME DInv, Blip \/ Busy \/ NotImplemented \/ Unusable
  PROVE  DInv'
<1>0. /\ run.pc = "request" /\ Keep /\ UNCHANGED <<server, flushed>> /\ run \in Runs
      /\ wronged \in BOOLEAN /\ run.errors + 1 \in Nat
  <2>1. run.pc = "request" /\ Keep
    BY DEF Blip, Busy, NotImplemented, Unusable, Asking
  <2>2. UNCHANGED <<server, flushed>>
    BY DEF Blip, Busy, NotImplemented, Unusable, Quietly, Wronged, Serving
  <2>3. run \in Runs /\ wronged \in BOOLEAN
    BY DEF DInv, RunOK, RunTyped
  <2>4. run.errors \in Nat
    BY <2>3 DEF Runs
  <2> QED
    BY <2>1, <2>2, <2>3, <2>4
<1> DEFINE q == Retried(FALSE)
<1>1. /\ q \in Runs /\ q.pc \in {"request", "failed"}
      /\ q.want = run.want /\ q.signed = run.signed /\ q.meta = run.meta
      /\ q.refused = run.refused /\ q.spent = run.spent /\ q.errors = run.errors
      /\ q.pc = "failed" => Reason(q, FALSE)
  BY <1>0, RetriedFields
<1>2. CASE Blip
  <2>1. run' = q /\ wronged' = wronged
    BY <1>2 DEF Blip, Quietly
  <2> HIDE DEF q
  <2>2. run'.pc = "failed" => Reason(run', wronged')
    BY <1>1, <2>1 DEF Reason
  <2> QED
    BY <1>0, <1>1, <2>1, <2>2, AsksAgain
<1>3. ASSUME wronged' = TRUE, run' \in Runs, run'.pc \in {"request", "failed"},
             run'.want = run.want, run'.signed = run.signed, run'.meta = run.meta,
             run'.spent = run.spent
      PROVE  DInv'
  <2>1. Reason(run', wronged')
    BY <1>3 DEF Reason
  <2> QED
    BY <1>0, <1>3, <2>1, AsksAgain
<1>4. CASE Busy
  <2>1. PICK n \in Nat, b \in BOOLEAN : run' = [q EXCEPT !.errors = n, !.refused = b]
    <3> DEFINE n == IF Ranged THEN run.errors + 1 ELSE run.errors
               b == q.refused \/ n >= RangedErrorsBeforePlain
    <3>1. run' = [q EXCEPT !.errors = n, !.refused = b]
      BY <1>4 DEF Busy
    <3>2. n \in Nat /\ b \in BOOLEAN
      BY <1>0, <1>1 DEF Runs
    <3> HIDE DEF n, b, q
    <3> QED
      BY <3>1, <3>2
  <2>2. wronged' = TRUE
    BY <1>4 DEF Busy, Wronged
  <2> HIDE DEF q
  <2>3. /\ run' \in Runs /\ run'.pc = q.pc /\ run'.want = q.want /\ run'.signed = q.signed
        /\ run'.meta = q.meta /\ run'.spent = q.spent
    BY <1>1, <2>1 DEF Runs
  <2> QED
    BY <1>1, <1>3, <2>2, <2>3
<1>5. CASE NotImplemented \/ Unusable
  <2>1. wronged' = TRUE
    BY <1>5 DEF NotImplemented, Unusable, Wronged
  <2>2. \/ run' = [run EXCEPT !.refused = TRUE]
        \/ run' = [run EXCEPT !.pc = "failed"]
        \/ run' = q
    BY <1>5 DEF NotImplemented, Unusable
  <2> HIDE DEF q
  <2>3. /\ run' \in Runs /\ run'.pc \in {"request", "failed"} /\ run'.want = run.want
        /\ run'.signed = run.signed /\ run'.meta = run.meta /\ run'.spent = run.spent
    BY <1>0, <1>1, <2>2 DEF Runs, Pcs
  <2> QED
    BY <1>3, <2>1, <2>3
<1> QED
  BY <1>2, <1>4, <1>5

LEMMA GotoFields ==
  ASSUME run \in Runs, NEW p \in Pcs, Goto(p)
  PROVE  /\ run' \in Runs /\ run'.pc = p /\ run'.want = run.want /\ run'.signed = run.signed
         /\ run'.meta = run.meta /\ run'.refused = run.refused /\ run'.spent = run.spent
         /\ run'.failures = run.failures /\ run'.streak = run.streak
<1>1. NoBody \in Bodies
  BY DEF NoBody, Bodies, Units
<1> QED
  BY <1>1 DEF Goto, Runs

\* Whether an answer that is wrong for the wanted release has been noticed.
LEMMA StrayFacts ==
  ASSUME DInv, Stray \/ Wronged
  PROVE  /\ wronged' \in BOOLEAN /\ (wronged => wronged') /\ UNCHANGED <<server, flushed>>
         /\ Stray /\ ~wronged' => ~wronged /\ server.has = run.want
         /\ Wronged => wronged'
BY DEF Stray, Wronged, Serving, DInv, RunOK, RunTyped

LEMMA NotSatisfiableSafe ==
  ASSUME DInv, NotSatisfiable
  PROVE  DInv'
<1>0. run \in Runs /\ run.want \in Releases /\ run.pc = "request" /\ Ranged /\ Keep /\ "verify" \in Pcs
  BY DEF DInv, RunOK, RunTyped, Wanted, NotSatisfiable, Asking, Pcs
<1>1. /\ run.signed /\ Offset = Len(dir.part) /\ dir.part # NoFile /\ dir.side = run.meta
      /\ Len(dir.part) \in Nat
  BY <1>0, OffsetIsLen
<1>2. /\ run' \in Runs /\ run'.pc = "verify" /\ run'.want = run.want /\ run'.signed = run.signed
      /\ run'.meta = run.meta /\ run'.spent = run.spent
  BY <1>0, GotoFields DEF NotSatisfiable
<1>3. /\ wronged' \in BOOLEAN /\ UNCHANGED <<server, flushed>>
      /\ ~wronged' => ~wronged /\ server.has = run.want /\ ~(Offset < Size[server.has])
  BY StrayFacts DEF NotSatisfiable
<1>4. DiskOK' /\ dir' = dir /\ disk' = disk
  BY <1>0, <1>3, DiskKept DEF DInv, DiskOK, Keep
<1>5. RunTyped' /\ Wanted' /\ TagsFollow'
  BY <1>0, <1>1, <1>2, <1>3, <1>4 DEF DInv, RunOK, RunTyped, Wanted, TagsFollow
<1>6. SidecarFollows'
  BY <1>0, <1>1, <1>2, <1>4 DEF DInv, RunOK, SidecarFollows, Taking
<1>7. PartFollows'
  <2> SUFFICES ASSUME ~wronged' PROVE PartFollows'
    BY DEF PartFollows
  <2>1. Size[run.want] \in Nat /\ Len(dir.part) >= Size[run.want] /\ ~wronged
    BY <1>0, <1>1, <1>3, Sizes
  <2>2. ASSUME run.spent PROVE dir.part = Genuine(run.want)
    <3>1. PICK k \in Nat : dir.part = Copies(run.want, k) /\ k <= Size[run.want]
      BY <1>0, <1>1, <2>1, <2>2 DEF DInv, RunOK, PartFollows
    <3>2. Len(dir.part) = k /\ run.want \in Units
      BY <1>0, <3>1, CopiesGrow DEF Units
    <3>3. k = Size[run.want]
      BY <2>1, <3>1, <3>2
    <3> QED
      BY <1>0, <3>1, <3>3, GenuineIsCopies
  <2> QED
    BY <1>2, <1>4, <2>1, <2>2 DEF PartFollows, Genuine
<1>8. BodyFollows' /\ PromotionFollows' /\ LeftoversDoNoHarm'
  BY <1>2 DEF BodyFollows, PromotionFollows, LeftoversDoNoHarm, Taking
<1> QED
  BY <1>4, <1>5, <1>6, <1>7, <1>8 DEF DInv, RunOK

LEMMA PartialContentSafe ==
  ASSUME DInv, PartialContent
  PROVE  DInv'
<1>0. run \in Runs /\ run.want \in Releases /\ run.pc = "request" /\ Ranged /\ Keep /\ server.has \in Releases
  BY DEF DInv, DiskOK, RunOK, RunTyped, Wanted, PartialContent, Asking
<1>1. /\ run.signed /\ ~run.refused /\ Offset = Len(dir.part) /\ dir.part # NoFile
      /\ dir.side = run.meta /\ Len(dir.part) \in Nat
  BY <1>0, OffsetIsLen
<1>2. /\ wronged' \in BOOLEAN /\ (wronged => wronged') /\ UNCHANGED <<server, flushed>>
      /\ ~wronged' => ~wronged /\ server.has = run.want
  BY StrayFacts DEF PartialContent
<1>3. DiskOK' /\ dir' = dir /\ disk' = disk
  BY <1>0, <1>2, DiskKept DEF DInv, DiskOK, Keep
<1>4. Tagged(dir.part, run.meta) /\ run.meta.etag \in Units
  BY <1>0, <1>1 DEF DInv, DiskOK, Runs, Sides
<1>5. CASE ~Continues
  <2>1. run' = [run EXCEPT !.refused = TRUE]
    BY <1>5 DEF PartialContent
  <2>2. /\ run' \in Runs /\ run'.pc = "request" /\ run'.want = run.want
        /\ run'.signed = run.signed /\ run'.meta = run.meta /\ run'.spent = run.spent
    BY <1>0, <2>1 DEF Runs
  <2>3. ~wronged' /\ dir.part[1] = run.want => dir.side.total \notin {0, Size[run.want]}
    BY <1>0, <1>1, <1>2, <1>4, <1>5 DEF Continues, Tagged, Etag
  <2> QED
    BY <1>0, <1>1, <1>2, <2>2, <2>3, AsksAgain
<1>6. CASE Continues
  <2> DEFINE p == IF run.meta.total = 0 THEN "unpublish" ELSE "stream"
             t == Size[server.has]
             o == Offset
  <2>1. PICK n \in 1..(t - o) :
          run' = [run EXCEPT !.pc = p, !.meta.total = t, !.errors = 0,
                             !.body = [how |-> "resume", of |-> server.has, left |-> n,
                                       start |-> o, total |-> t]]
    BY <1>6 DEF PartialContent
  <2>2. /\ t \in Nat /\ o \in Nat /\ p \in Pcs /\ n \in Nat /\ o + n <= t /\ server.has \in Units
        /\ p = "unpublish" \/ (p = "stream" /\ run.meta.total = t)
    BY <1>0, <1>1, <1>6, <2>1, Sizes DEF Continues, Pcs, Taking, Units
  <2> HIDE DEF p, t, o
  <2>3. /\ run' \in Runs /\ run'.pc = p /\ run'.want = run.want /\ run'.signed = run.signed
        /\ run'.refused = run.refused /\ run'.spent = run.spent
        /\ run'.body.how = "resume" /\ run'.body.of = server.has /\ run'.body.left = n
        /\ run'.body.total = t
    BY <1>0, <2>1, <2>2 DEF Runs, Sides, Bodies
  <2>4. run'.meta = [run.meta EXCEPT !.total = t] /\ run.meta \in Sides
    BY <1>0, <2>1 DEF Runs
  <2>5. /\ run'.meta.sig = run.meta.sig /\ run'.meta.etag = run.meta.etag
        /\ p = "stream" => run'.meta = run.meta
    BY <2>2, <2>4 DEF Sides
  <2>6. RunTyped' /\ Wanted'
    BY <1>0, <1>1, <1>2, <2>2, <2>3 DEF DInv, RunOK, RunTyped, Wanted
  <2>7. TagsFollow'
    BY <1>1, <1>2, <1>3, <1>4, <2>3, <2>5 DEF DInv, RunOK, TagsFollow, Tagged
  <2>8. SidecarFollows'
    BY <1>0, <1>1, <1>3, <2>2, <2>3, <2>5 DEF DInv, RunOK, SidecarFollows, Taking
  <2>9. BodyFollows'
    <3>1. ASSUME ~wronged', run.spent
          PROVE  \E k \in Nat : dir.part = Copies(run.want, k) /\ k + n <= Size[run.want]
      <4>1. PICK k \in Nat : dir.part = Copies(run.want, k)
        BY <1>0, <1>1, <1>2, <3>1 DEF DInv, RunOK, PartFollows
      <4>2. Len(dir.part) = k
        BY <1>0, <4>1, CopiesGrow DEF Units
      <4> QED
        BY <1>1, <1>2, <2>2, <3>1, <4>1, <4>2 DEF o, t
    <3>2. ~wronged' => t = Size[run.want] /\ server.has = run.want
      BY <1>2 DEF t
    <3>3. run'.refused = FALSE /\ run'.pc # "restart"
      BY <1>0, <1>1, <2>2, <2>3 DEF Runs
    <3> QED
      BY <1>1, <1>3, <2>3, <3>1, <3>2, <3>3 DEF BodyFollows, Copies
  <2>10. PartFollows' /\ PromotionFollows' /\ LeftoversDoNoHarm'
    BY <2>2, <2>3 DEF PartFollows, PromotionFollows, LeftoversDoNoHarm
  <2> QED
    BY <1>3, <2>6, <2>7, <2>8, <2>9, <2>10 DEF DInv, RunOK
<1> QED
  BY <1>5, <1>6

LEMMA FullSafe ==
  ASSUME DInv, Full
  PROVE  DInv'
<1>0. run \in Runs /\ run.want \in Releases /\ run.pc = "request" /\ Keep /\ server.has \in Releases
      /\ run.signed \in BOOLEAN /\ run.refused \in BOOLEAN
  BY DEF DInv, DiskOK, RunOK, RunTyped, Wanted, Full, Asking, Runs
<1>1. /\ wronged' \in BOOLEAN /\ (wronged => wronged') /\ UNCHANGED <<server, flushed>>
      /\ Stray /\ ~wronged' => ~wronged /\ server.has = run.want
      /\ Wronged => wronged'
      /\ IF Ranged /\ run.meta.etag \in {Nothing, Etag} THEN Wronged ELSE Stray
  BY StrayFacts DEF Full
<1>2. DiskOK' /\ dir' = dir /\ disk' = disk /\ dir.part \in Seq(Units)
  BY <1>0, <1>1, DiskKept DEF DInv, DiskOK, Keep, Dirs
<1> DEFINE p == IF run.signed THEN "restart" ELSE "truncate"
           t == Size[server.has]
           e == Etag
<1>3. PICK total \in {0, t} :
        run' = [run EXCEPT !.pc = p, !.refused = FALSE, !.errors = 0,
                           !.meta = Sidecar(run.want, e, total),
                           !.body = [how |-> "restart", of |-> server.has, left |-> t,
                                     start |-> 0, total |-> total]]
  BY DEF Full
<1>4. /\ t \in Nat /\ total \in Nat /\ p \in Pcs /\ server.has \in Units /\ run.want \in Units
      /\ e \in Units /\ e \in {Nothing, server.has} /\ (~server.tags => e = Nothing)
      /\ p = (IF run.signed THEN "restart" ELSE "truncate")
  BY <1>0, <1>3, Sizes DEF Units, Pcs, Taking, Etag
<1>5. e = Etag /\ t = Size[server.has]
  OBVIOUS
<1> HIDE DEF p, t, e
<1>6. /\ run' \in Runs /\ run'.pc = p /\ run'.want = run.want /\ run'.signed = run.signed
      /\ run'.refused = FALSE /\ run'.spent = run.spent
      /\ run'.meta.sig = run.want /\ run'.meta.etag = e
      /\ run'.body.how = "restart" /\ run'.body.of = server.has /\ run'.body.left = t
  BY <1>0, <1>3, <1>4 DEF Runs, Sidecar, Sides, Bodies
<1>7. RunTyped' /\ Wanted'
  BY <1>0, <1>1, <1>4, <1>6 DEF DInv, RunOK, RunTyped, Wanted, Taking, Promoting
<1>8. TagsFollow'
  BY <1>0, <1>1, <1>2, <1>4, <1>6 DEF DInv, RunOK, TagsFollow
<1>9. SidecarFollows'
  BY <1>0, <1>4, <1>6 DEF SidecarFollows, Taking
<1>10. ~wronged' => ~wronged /\ server.has = run.want
  BY <1>1
<1>11. BodyFollows'
  BY <1>4, <1>5, <1>6, <1>10 DEF BodyFollows, Taking
<1>12. PartFollows'
  <2> SUFFICES ASSUME run.signed, ~wronged', dir.part # NoFile, dir.part[1] = run.want
               PROVE  dir.side.total \notin {0, Size[run.want]}
    BY <1>2, <1>4, <1>6 DEF PartFollows
  <2>1. CASE Ranged
    <3>1. dir.side = run.meta
      BY <1>0, <2>1, OffsetIsLen
    <3>2. run.meta.etag \in {Nothing, run.want}
      BY <1>0, <3>1 DEF DInv, DiskOK, Tagged
    <3>3. run.meta.etag \notin {Nothing, e}
      BY <1>1, <1>5, <2>1
    <3>4. server.tags => e = run.want
      BY <1>5, <1>10 DEF Etag
    <3> QED
      BY <3>2, <3>3, <3>4 DEF DInv, RunOK, TagsFollow
  <2>2. CASE ~Ranged
    <3>1. Len(dir.part) \in Nat /\ Len(dir.part) # 0
      BY <1>2, EmptySeq, LenProperties DEF NoFile
    <3>2. run.refused
      BY <2>2, <3>1 DEF Ranged, Offset
    <3> QED
      BY <1>0, <1>10, <3>2 DEF DInv, RunOK, PartFollows
  <2> QED
    BY <2>1, <2>2
<1>13. PromotionFollows' /\ LeftoversDoNoHarm'
  BY <1>4, <1>6 DEF PromotionFollows, LeftoversDoNoHarm
<1> QED
  BY <1>2, <1>7, <1>8, <1>9, <1>11, <1>12, <1>13 DEF DInv, RunOK

-----------------------------------------------------------------------------
(* Taking the body to disk.                                                *)

LEMMA MoveFields ==
  ASSUME run \in Runs, NEW p \in Pcs, run' = [run EXCEPT !.pc = p]
  PROVE  /\ run' \in Runs /\ run'.pc = p /\ run'.want = run.want /\ run'.signed = run.signed
         /\ run'.meta = run.meta /\ run'.refused = run.refused /\ run'.spent = run.spent
         /\ run'.body = run.body
BY DEF Runs

LEMMA RestartSafe ==
  ASSUME DInv, Restart
  PROVE  DInv'
<1>0. /\ run \in Runs /\ run.pc = "restart" /\ "unpublish" \in Pcs /\ UNCHANGED <<server, flushed, wronged>>
      /\ run.signed = TRUE /\ run.want \in Releases
  BY DEF DInv, RunOK, RunTyped, Wanted, Taking, Restart, Pcs, Quietly, Serving
<1>1. /\ run' \in Runs /\ run'.pc = "unpublish" /\ run'.want = run.want /\ run'.signed = run.signed
      /\ run'.meta = run.meta /\ run'.refused = run.refused /\ run'.spent = run.spent
      /\ run'.body = run.body
  BY <1>0, MoveFields DEF Restart
<1>2. DiskOK' /\ dir'.part = NoFile
  BY <1>0, DropPartSafe DEF DInv, Restart
<1>3. RunTyped' /\ Wanted'
  BY <1>0, <1>1 DEF DInv, RunOK, RunTyped, Wanted
<1>4. TagsFollow' /\ SidecarFollows'
  BY <1>0, <1>1, <1>2 DEF DInv, RunOK, TagsFollow, SidecarFollows, Tagged, Taking
<1>5. BodyFollows'
  BY <1>0, <1>1, <1>2 DEF DInv, RunOK, BodyFollows, Taking
<1>6. PartFollows' /\ PromotionFollows' /\ LeftoversDoNoHarm'
  BY <1>1 DEF PartFollows, PromotionFollows, LeftoversDoNoHarm
<1> QED
  BY <1>2, <1>3, <1>4, <1>5, <1>6 DEF DInv, RunOK

LEMMA UnpublishSafe ==
  ASSUME DInv, Unpublish
  PROVE  DInv'
<1>0. /\ run \in Runs /\ run.pc = "unpublish" /\ "publish" \in Pcs /\ UNCHANGED <<server, flushed, wronged>>
      /\ run.signed = TRUE /\ run.want \in Releases
  BY DEF DInv, RunOK, RunTyped, Wanted, Taking, Unpublish, Pcs, Quietly, Serving
<1>1. /\ run' \in Runs /\ run'.pc = "publish" /\ run'.want = run.want /\ run'.signed = run.signed
      /\ run'.meta = run.meta /\ run'.refused = run.refused /\ run'.spent = run.spent
      /\ run'.body = run.body
  BY <1>0, MoveFields DEF Unpublish
<1>2. DiskOK' /\ dir'.part = dir.part
  BY <1>0, DropSideSafe DEF DInv, Unpublish
<1>3. RunTyped' /\ Wanted'
  BY <1>0, <1>1 DEF DInv, RunOK, RunTyped, Wanted
<1>4. TagsFollow' /\ SidecarFollows'
  BY <1>0, <1>1, <1>2 DEF DInv, RunOK, TagsFollow, SidecarFollows, Tagged, Taking
<1>5. BodyFollows'
  BY <1>0, <1>1, <1>2 DEF DInv, RunOK, BodyFollows, Taking, Copies
<1>6. PartFollows' /\ PromotionFollows' /\ LeftoversDoNoHarm'
  BY <1>1 DEF PartFollows, PromotionFollows, LeftoversDoNoHarm
<1> QED
  BY <1>2, <1>3, <1>4, <1>5, <1>6 DEF DInv, RunOK

LEMMA PublishSafe ==
  ASSUME DInv, Publish
  PROVE  DInv'
<1>0. /\ run \in Runs /\ run.pc = "publish" /\ "stream" \in Pcs /\ UNCHANGED <<server, flushed, wronged>>
      /\ run.signed = TRUE /\ run.want \in Releases /\ run.meta \in Sides /\ dir \in Dirs
  BY DEF DInv, DiskOK, RunOK, RunTyped, Wanted, Taking, Publish, Pcs, Quietly, Serving, Runs
<1>1. /\ run' \in Runs /\ run'.pc = "stream" /\ run'.want = run.want /\ run'.signed = run.signed
      /\ run'.meta = run.meta /\ run'.refused = run.refused /\ run'.spent = run.spent
      /\ run'.body = run.body
  BY <1>0, MoveFields DEF Publish
<1>2. /\ dir' \in Dirs /\ disk' = {dir'} /\ dir'.part = dir.part /\ dir'.side = run.meta
      /\ dir'.final = dir.final
  BY <1>0 DEF Publish, Dirs
<1>3. DiskOK'
  <2>1. dir.final \in {NoFile} \cup {Genuine(r) : r \in Releases}
    BY DEF DInv, DiskOK
  <2>2. Tagged(dir.part, run.meta) /\ (~server.tags => run.meta.etag = Nothing)
    BY <1>0 DEF DInv, RunOK, TagsFollow
  <2> QED
    BY <1>0, <1>2, <2>1, <2>2, DiskSynced DEF DInv
<1>4. RunTyped' /\ Wanted'
  BY <1>0, <1>1 DEF DInv, RunOK, RunTyped, Wanted, Taking, Promoting
<1>5. TagsFollow' /\ SidecarFollows'
  BY <1>0, <1>1, <1>2 DEF DInv, RunOK, TagsFollow, SidecarFollows, Taking
<1>6. BodyFollows'
  <2>1. /\ NoFile = Copies(run.want, 0) /\ Size[run.want] \in Nat /\ 0 + Size[run.want] = Size[run.want]
    BY <1>0, Sizes DEF NoFile, Copies
  <2>2. run.body.how = "restart" => dir.part = NoFile /\ (~wronged => run.body.left = Size[run.want])
    BY <1>0 DEF DInv, RunOK, BodyFollows, Taking
  <2>3. run.body.how = "restart" /\ ~wronged =>
          \E k \in Nat : dir.part = Copies(run.want, k) /\ k + run.body.left = Size[run.want]
    BY <2>1, <2>2
  <2>4. run.signed =>
          /\ run.refused = FALSE
          /\ run.body.how = "restart" => run.meta.etag \in {Nothing, run.body.of}
          /\ run.body.how # "restart" => run.body.how = "resume" /\ dir.part # NoFile
          /\ ~wronged => run.body.of = run.want
          /\ ~wronged /\ run.body.how = "resume" => run.body.total = Size[run.want]
          /\ ~wronged /\ run.body.how = "resume" /\ run.spent =>
               \E k \in Nat : dir.part = Copies(run.want, k) /\ k + run.body.left <= Size[run.want]
    BY <1>0 DEF DInv, RunOK, BodyFollows, Taking
  <2>5. wronged' = wronged
    BY <1>0
  <2> QED
    BY <1>1, <1>2, <2>3, <2>4, <2>5 DEF BodyFollows, Copies
<1>7. PartFollows' /\ PromotionFollows' /\ LeftoversDoNoHarm'
  BY <1>1 DEF PartFollows, PromotionFollows, LeftoversDoNoHarm
<1> QED
  BY <1>3, <1>4, <1>5, <1>6, <1>7 DEF DInv, RunOK

LEMMA TruncateSafe ==
  ASSUME DInv, Truncate
  PROVE  DInv'
<1>0. /\ run \in Runs /\ run.pc = "truncate" /\ "stream" \in Pcs /\ UNCHANGED <<server, flushed, wronged>>
      /\ run.signed = FALSE /\ run.want \in Releases
  BY DEF DInv, RunOK, RunTyped, Wanted, Truncate, Pcs, Quietly, Serving
<1>1. /\ run' \in Runs /\ run'.pc = "stream" /\ run'.want = run.want /\ run'.signed = run.signed
      /\ run'.meta = run.meta
  BY <1>0, MoveFields DEF Truncate
<1>2. DiskOK' /\ dir'.side = dir.side
  BY <1>0, DropPartSafe DEF DInv, Truncate
<1>3. RunTyped' /\ Wanted' /\ TagsFollow'
  BY <1>0, <1>1, <1>2 DEF DInv, RunOK, RunTyped, Wanted, TagsFollow, Taking, Promoting
<1>4. SidecarFollows' /\ BodyFollows' /\ PartFollows' /\ PromotionFollows' /\ LeftoversDoNoHarm'
  BY <1>0, <1>1 DEF SidecarFollows, BodyFollows, PartFollows, PromotionFollows, LeftoversDoNoHarm
<1> QED
  BY <1>2, <1>3, <1>4 DEF DInv, RunOK

LEMMA ChunkSafe ==
  ASSUME DInv, Chunk
  PROVE  DInv'
<1>0. /\ run \in Runs /\ run.pc = "stream" /\ UNCHANGED <<server, wronged>> /\ flushed' = FALSE
      /\ run.want \in Releases /\ dir \in Dirs /\ run.signed \in BOOLEAN
      /\ dir.part \in Seq(Units) /\ run.body.of \in Units
      /\ run.body.left \in Nat /\ run.body.left > 0
  BY DEF DInv, DiskOK, RunOK, RunTyped, Wanted, Chunk, Quietly, Serving, Runs, Bodies, Dirs
<1> DEFINE d == [dir EXCEPT !.part = Append(dir.part, run.body.of)]
           D == {d}
<1>1. dir' = d /\ disk' = disk \cup D
  BY WritesSteps DEF Chunk
<1>2. /\ run' \in Runs /\ run'.pc = run.pc /\ run'.want = run.want /\ run'.signed = run.signed
      /\ run'.meta = run.meta /\ run'.refused = run.refused /\ run'.spent = run.spent
      /\ run'.body.how = run.body.how /\ run'.body.of = run.body.of /\ run'.body.total = run.body.total
      /\ run'.body.left = run.body.left - 1
  <2> DEFINE b == [run.body EXCEPT !.left = run.body.left - 1]
  <2>1. run' = [run EXCEPT !.body = b] /\ run.body \in Bodies
    BY <1>0 DEF Chunk, Runs
  <2>2. /\ b \in Bodies /\ b.how = run.body.how /\ b.of = run.body.of /\ b.total = run.body.total
        /\ b.left = run.body.left - 1
    BY <1>0, <2>1 DEF Bodies
  <2> HIDE DEF b
  <2> QED
    BY <1>0, <2>1, <2>2 DEF Runs
<1>3. /\ Append(dir.part, run.body.of) \in Seq(Units) /\ Append(dir.part, run.body.of) # NoFile
      /\ dir.part # NoFile => Append(dir.part, run.body.of)[1] = dir.part[1]
      /\ dir.part = NoFile => Append(dir.part, run.body.of)[1] = run.body.of
  <2>1. Len(dir.part) \in Nat /\ (Len(dir.part) = 0 <=> dir.part = NoFile)
    BY <1>0, EmptySeq, LenProperties DEF NoFile
  <2> QED
    BY <1>0, <2>1, AppendProperties DEF NoFile
<1>4. d \in Dirs /\ d.part = Append(dir.part, run.body.of) /\ d.side = dir.side /\ d.final = dir.final
  BY <1>0, <1>3 DEF Dirs
<1>5. Tagged(d.part, d.side) /\ (~server.tags => d.side.etag = Nothing)
  <2>1. Tagged(dir.part, dir.side) /\ (~server.tags => dir.side.etag = Nothing)
    BY DEF DInv, DiskOK
  <2>2. dir.part = NoFile => dir.side.etag \in {Nothing, run.body.of}
    <3>1. CASE run.signed
      BY <1>0, <3>1 DEF DInv, RunOK, BodyFollows, SidecarFollows
    <3>2. CASE ~run.signed
      BY <1>0, <3>2 DEF DInv, RunOK, TagsFollow
    <3> QED
      BY <3>1, <3>2
  <2> HIDE DEF d
  <2> QED
    BY <1>3, <1>4, <2>1, <2>2 DEF Tagged
<1> HIDE DEF d
<1>6. DiskOK'
  <2>1. /\ dir' \in D /\ D \subseteq Dirs /\ dir'.final = dir.final
        /\ \A x \in D : /\ x.final = dir.final /\ Tagged(x.part, x.side)
                        /\ ~server.tags => x.side.etag = Nothing
    BY <1>1, <1>4, <1>5
  <2> HIDE DEF D
  <2> QED
    BY <1>0, <1>1, <2>1, DiskGrows DEF DInv
<1>7. RunTyped' /\ Wanted' /\ TagsFollow' /\ SidecarFollows'
  <2>1. dir'.side = dir.side
    BY <1>1, <1>4
  <2>2. RunTyped' /\ Wanted'
    BY <1>0, <1>2 DEF DInv, RunOK, RunTyped, Wanted
  <2>3. TagsFollow' /\ SidecarFollows'
    BY <1>0, <1>2, <2>1 DEF DInv, RunOK, TagsFollow, SidecarFollows
  <2> QED
    BY <2>2, <2>3
<1>8. BodyFollows'
  <2>1. dir'.part = Append(dir.part, run.body.of) /\ dir'.part # NoFile
    BY <1>1, <1>3, <1>4
  <2>2. \A k \in Nat : dir.part = Copies(run.want, k) /\ run.body.of = run.want =>
          k + 1 \in Nat /\ dir'.part = Copies(run.want, k + 1)
    <3>1. run.want \in Units
      BY <1>0 DEF Units
    <3> TAKE k \in Nat
    <3>2. k + 1 \in Nat
      OBVIOUS
    <3>3. Append(Copies(run.want, k), run.want) = Copies(run.want, k + 1)
      BY <3>1, CopiesGrow, Zenon
    <3> QED
      BY <2>1, <3>2, <3>3
  <2>3. run.signed /\ ~wronged /\ run.body.how = "restart" =>
          \E k \in Nat : dir'.part = Copies(run.want, k) /\ k + run'.body.left = Size[run.want]
    <3>1. SUFFICES ASSUME run.signed, ~wronged, run.body.how = "restart"
                   PROVE  \E k \in Nat : dir'.part = Copies(run.want, k) /\ k + run'.body.left = Size[run.want]
      OBVIOUS
    <3>2. PICK k \in Nat : dir.part = Copies(run.want, k) /\ k + run.body.left = Size[run.want]
      BY <1>0, <3>1 DEF DInv, RunOK, BodyFollows
    <3>3. run.body.of = run.want
      BY <1>0, <3>1 DEF DInv, RunOK, BodyFollows
    <3>4. (k + 1) + run'.body.left = Size[run.want]
      BY <1>0, <1>2, <3>2
    <3> QED
      BY <2>2, <3>2, <3>3, <3>4
  <2>4. run.signed /\ ~wronged /\ run.body.how = "resume" /\ run.spent =>
          \E k \in Nat : dir'.part = Copies(run.want, k) /\ k + run'.body.left <= Size[run.want]
    <3>1. SUFFICES ASSUME run.signed, ~wronged, run.body.how = "resume", run.spent
                   PROVE  \E k \in Nat : dir'.part = Copies(run.want, k) /\ k + run'.body.left <= Size[run.want]
      OBVIOUS
    <3>2. PICK k \in Nat : dir.part = Copies(run.want, k) /\ k + run.body.left <= Size[run.want]
      BY <1>0, <3>1 DEF DInv, RunOK, BodyFollows
    <3>3. run.body.of = run.want
      BY <1>0, <3>1 DEF DInv, RunOK, BodyFollows
    <3>4. (k + 1) + run'.body.left <= Size[run.want]
      BY <1>0, <1>2, <3>2, Sizes
    <3> QED
      BY <2>2, <3>2, <3>3, <3>4
  <2>5. run.signed =>
          /\ run.refused = FALSE
          /\ run.body.how = "restart" => run.meta.etag \in {Nothing, run.body.of}
          /\ run.body.how # "restart" => run.body.how = "resume"
          /\ ~wronged => run.body.of = run.want
          /\ ~wronged /\ run.body.how = "resume" => run.body.total = Size[run.want]
    BY <1>0 DEF DInv, RunOK, BodyFollows
  <2>6. run'.pc = "stream" /\ wronged' = wronged
    BY <1>0, <1>2
  <2> DEFINE C(k) == Copies(run.want, k)
  <2>7. run'.signed /\ ~wronged' /\ run'.body.how = "restart" =>
          \E k \in Nat : dir'.part = C(k) /\ k + run'.body.left = Size[run.want]
    BY <1>2, <2>3, <2>6
  <2>8. run'.signed /\ ~wronged' /\ run'.body.how = "resume" /\ run'.spent =>
          \E k \in Nat : dir'.part = C(k) /\ k + run'.body.left <= Size[run.want]
    BY <1>2, <2>4, <2>6
  <2>9. \A k \in Nat : C(k) = Copies(run.want, k)'
    BY <1>2 DEF Copies
  <2> HIDE DEF C
  <2> QED
    BY <1>2, <2>1, <2>5, <2>6, <2>7, <2>8, <2>9 DEF BodyFollows
<1>9. PartFollows' /\ PromotionFollows' /\ LeftoversDoNoHarm'
  BY <1>0, <1>2 DEF PartFollows, PromotionFollows, LeftoversDoNoHarm
<1> QED
  BY <1>6, <1>7, <1>8, <1>9 DEF DInv, RunOK

LEMMA StreamEndsSafe ==
  ASSUME DInv, Breaks \/ Overruns
  PROVE  DInv'
<1>0. /\ run \in Runs /\ run.pc = "stream" /\ Keep /\ "failed" \in Pcs
      /\ UNCHANGED <<server, flushed>> /\ wronged \in BOOLEAN
  BY DEF DInv, RunOK, RunTyped, Breaks, Overruns, Quietly, Wronged, Serving, Pcs
<1>1. CASE Breaks
  <2>1. PICK made \in BOOLEAN : run' = Retried(made)
    <3>1. run' = Retried(Len(dir.part) > run.body.start)
      BY <1>1 DEF Breaks
    <3>2. (Len(dir.part) > run.body.start) \in BOOLEAN
      OBVIOUS
    <3> QED
      BY <3>1, <3>2, Zenon
  <2>2. /\ run' \in Runs /\ run'.pc \in {"request", "failed"}
        /\ run'.want = run.want /\ run'.signed = run.signed /\ run'.meta = run.meta
        /\ run'.refused = run.refused /\ run'.spent = run.spent
        /\ run'.pc = "failed" => Reason(run', FALSE)
    BY <1>0, <2>1, RetriedFields
  <2>3. wronged' = wronged /\ (run'.pc = "failed" => Reason(run', wronged'))
    BY <1>1, <2>2 DEF Breaks, Quietly, Reason
  <2> QED
    BY <1>0, <2>2, <2>3, AsksAgain
<1>2. CASE Overruns
  <2>1. /\ run' \in Runs /\ run'.pc = "failed" /\ run'.want = run.want /\ run'.signed = run.signed
        /\ run'.meta = run.meta /\ run'.refused = run.refused /\ run'.spent = run.spent
    BY <1>0, <1>2, GotoFields DEF Overruns
  <2>2. wronged' = TRUE /\ Reason(run', wronged')
    BY <1>2 DEF Overruns, Wronged, Reason
  <2> QED
    BY <1>0, <2>1, <2>2, AsksAgain
<1> QED
  BY <1>1, <1>2

LEMMA ReceivedSafe ==
  ASSUME DInv, Received
  PROVE  DInv'
<1>0. /\ run \in Runs /\ run.pc = "stream" /\ Keep /\ run.body.left = 0 /\ run.want \in Releases
      /\ UNCHANGED <<server, flushed, wronged>> /\ wronged \in BOOLEAN /\ run.signed \in BOOLEAN
      /\ Len(dir.part) \in Nat /\ run.body.total \in Nat /\ run.spent \in BOOLEAN
  <2>1. run \in Runs /\ run.pc = "stream" /\ Keep /\ run.body.left = 0 /\ wronged \in BOOLEAN
        /\ run.want \in Releases /\ UNCHANGED <<server, flushed, wronged>>
    BY DEF DInv, RunOK, RunTyped, Wanted, Received, Quietly, Serving
  <2>2. run.signed \in BOOLEAN /\ run.body.total \in Nat /\ run.spent \in BOOLEAN
    BY <2>1 DEF Runs, Bodies
  <2>3. Len(dir.part) \in Nat
    BY LenProperties DEF DInv, DiskOK, Dirs
  <2> QED
    BY <2>1, <2>2, <2>3
<1> DEFINE p == IF ~run.signed THEN "done"
                ELSE IF run.body.how = "restart" THEN "verifyFresh"
                ELSE IF Len(dir.part) < run.body.total THEN "request" ELSE "verify"
<1>1. run' = [run EXCEPT !.streak = 0, !.body = NoBody, !.pc = p] /\ p \in Pcs /\ NoBody \in Bodies
  BY DEF Received, Pcs, NoBody, Bodies, Units
<1> HIDE DEF p
<1>2. /\ run' \in Runs /\ run'.pc = p /\ run'.want = run.want /\ run'.signed = run.signed
      /\ run'.meta = run.meta /\ run'.refused = run.refused /\ run'.spent = run.spent
  BY <1>0, <1>1 DEF Runs
<1>3. DiskOK' /\ dir' = dir /\ disk' = disk
  BY <1>0, DiskKept DEF DInv, DiskOK, Keep
<1>4. CASE p = "request"
  BY <1>0, <1>2, <1>4, AsksAgain
<1>5. CASE p # "request"
  <2>1. /\ p \in {"done", "verifyFresh", "verify"} /\ (p = "done" <=> ~run.signed)
        /\ p = "verifyFresh" => run.body.how = "restart"
        /\ p = "verify" => run.body.how # "restart" /\ ~(Len(dir.part) < run.body.total)
    BY <1>5 DEF p
  <2>2. RunTyped' /\ Wanted' /\ TagsFollow'
    BY <1>0, <1>2, <2>1 DEF DInv, RunOK, RunTyped, Wanted, TagsFollow, Taking, Promoting
  <2>3. SidecarFollows'
    BY <1>0, <1>2, <1>3, <2>1 DEF DInv, RunOK, SidecarFollows
  <2>4. BodyFollows' /\ PromotionFollows' /\ LeftoversDoNoHarm'
    BY <1>2, <2>1 DEF BodyFollows, PromotionFollows, LeftoversDoNoHarm, Taking
  <2>5. PartFollows'
    <3> SUFFICES ASSUME run.signed, ~wronged PROVE PartFollows'
      BY <1>0, <1>2 DEF PartFollows
    <3>0. Size[run.want] \in Nat /\ run.want \in Units
      BY <1>0, Sizes DEF Units
    <3>1. ASSUME NEW k \in Nat, dir.part = Copies(run.want, k), k = Size[run.want]
          PROVE  dir.part = Genuine(run.want)
      BY <1>0, <3>1, GenuineIsCopies
    <3>2. CASE p = "verifyFresh"
      <4>1. PICK k \in Nat : dir.part = Copies(run.want, k) /\ k + run.body.left = Size[run.want]
        BY <1>0, <2>1, <3>2 DEF DInv, RunOK, BodyFollows
      <4>2. dir.part = Genuine(run.want)
        BY <1>0, <3>0, <3>1, <4>1
      <4> QED
        BY <1>2, <1>3, <3>2, <4>2 DEF PartFollows, Genuine
    <3>3. CASE p = "verify"
      <4>0. run.body.how = "resume" /\ run.body.total = Size[run.want]
        BY <1>0, <2>1, <3>3 DEF DInv, RunOK, BodyFollows
      <4>1. run.body.how = "resume" /\ Len(dir.part) >= Size[run.want]
        BY <1>0, <2>1, <3>0, <3>3, <4>0
      <4>2. ASSUME run.spent PROVE dir.part = Genuine(run.want)
        <5>1. PICK k \in Nat : dir.part = Copies(run.want, k) /\ k + run.body.left <= Size[run.want]
          BY <1>0, <4>1, <4>2 DEF DInv, RunOK, BodyFollows
        <5>2. Len(Copies(run.want, k)) = k
          BY <3>0, CopiesGrow, Zenon
        <5>3. k = Size[run.want]
          BY <1>0, <3>0, <4>1, <5>1, <5>2
        <5> QED
          BY <3>1, <5>1, <5>3
      <4> QED
        BY <1>2, <1>3, <3>3, <4>1, <4>2 DEF PartFollows, Genuine
    <3> QED
      BY <2>1, <3>2, <3>3
  <2> QED
    BY <1>3, <2>2, <2>3, <2>4, <2>5 DEF DInv, RunOK
<1> QED
  BY <1>4, <1>5

-----------------------------------------------------------------------------
(* Verification, promotion and extraction.                                 *)

\* A run that is over.
LEMMA IdleSafe ==
  ASSUME DiskOK', run' \in Runs, run'.pc = "idle", flushed' \in BOOLEAN, wronged' \in BOOLEAN,
         ~server'.tags => run'.meta.etag = Nothing
  PROVE  DInv'
<1>1. RunTyped' /\ Wanted' /\ TagsFollow' /\ SidecarFollows' /\ BodyFollows'
  BY DEF RunTyped, Wanted, TagsFollow, SidecarFollows, BodyFollows, Taking, Promoting
<1>2. PartFollows' /\ PromotionFollows' /\ LeftoversDoNoHarm'
  BY DEF PartFollows, PromotionFollows, LeftoversDoNoHarm
<1> QED
  BY <1>1, <1>2 DEF DInv, RunOK

\* A signed run that has verified its tarball, or has failed to.
LEMMA VerdictSafe ==
  ASSUME DInv, DiskOK', run.pc \in {"verify", "verifyFresh"} \cup Promoting,
         NEW p \in Promoting \cup {"done", "failed"}, Goto(p),
         flushed' \in BOOLEAN, UNCHANGED <<server, wronged>>,
         p \in {"sync", "rename"} => dir'.side.sig = run.want /\ dir'.part = Genuine(run.want),
         p = "rename" => flushed' = TRUE /\ disk' = {dir'},
         p \in {"named", "unsidecar", "done"} => dir'.final = Genuine(run.want),
         p = "failed" => wronged
  PROVE  DInv'
<1>0. /\ run \in Runs /\ p \in Pcs /\ run.signed = TRUE /\ run.want \in Releases /\ wronged \in BOOLEAN
      /\ ~server.tags => run.meta.etag = Nothing
  BY DEF DInv, RunOK, RunTyped, Wanted, TagsFollow, Promoting, Pcs
<1>1. /\ run' \in Runs /\ run'.pc = p /\ run'.want = run.want /\ run'.signed = TRUE
      /\ run'.meta = run.meta
  BY <1>0, GotoFields
<1>2. RunTyped' /\ Wanted' /\ TagsFollow'
  BY <1>0, <1>1 DEF RunTyped, Wanted, TagsFollow, Promoting, Taking
<1>3. SidecarFollows' /\ BodyFollows'
  BY <1>1 DEF SidecarFollows, BodyFollows, Promoting, Taking, Genuine
<1>4. PartFollows' /\ PromotionFollows' /\ LeftoversDoNoHarm'
  BY <1>1 DEF PartFollows, PromotionFollows, LeftoversDoNoHarm, Promoting, Genuine
<1> QED
  BY <1>2, <1>3, <1>4 DEF DInv, RunOK

LEMMA VerifySafe ==
  ASSUME DInv, VerifyCandidate \/ VerifyFresh
  PROVE  DInv'
<1>0. /\ run.pc \in {"verify", "verifyFresh"} /\ run.signed = TRUE /\ run.want \in Releases
      /\ run \in Runs /\ DiskOK /\ {flushed, wronged} \subseteq BOOLEAN
      /\ UNCHANGED <<server, flushed, wronged>>
      /\ run.meta.sig = run.want /\ dir.side = run.meta /\ (~server.tags => run.meta.etag = Nothing)
      /\ server \in [has : Releases, tags : BOOLEAN]
  BY DEF DInv, DiskOK, RunOK, RunTyped, Wanted, SidecarFollows, TagsFollow, VerifyCandidate, VerifyFresh,
         Quietly, Serving
<1>1. CASE Verified /\ Goto("sync") /\ Keep
  <2>1. DiskOK' /\ dir' = dir
    BY <1>0, <1>1, DiskKept DEF Keep
  <2> QED
    BY <1>0, <1>1, <2>1, VerdictSafe DEF Verified, Promoting
<1>2. CASE ~Verified /\ (run.spent \/ run.pc = "verifyFresh") /\ DropPartial /\ Goto("failed")
  <2>1. DiskOK'
    BY <1>0, <1>2, DropPartialSafe
  <2>2. wronged
    BY <1>0, <1>2 DEF DInv, RunOK, PartFollows, Verified
  <2> QED
    BY <1>0, <1>2, <2>1, <2>2, VerdictSafe DEF Promoting
<1>3. CASE Writes(<<WithoutPart(dir)>>) /\ run' = [run EXCEPT !.pc = "request", !.spent = TRUE]
  <2>1. DiskOK' /\ dir'.part = NoFile
    BY <1>0, <1>3, DropPartSafe
  <2>2. /\ run' \in Runs /\ run'.pc = "request" /\ run'.want = run.want /\ run'.signed = TRUE
        /\ run'.meta = run.meta
    BY <1>0, <1>3 DEF Runs, Pcs
  <2>3. RunTyped' /\ Wanted' /\ TagsFollow' /\ SidecarFollows' /\ BodyFollows'
    BY <1>0, <2>1, <2>2
       DEF RunTyped, Wanted, TagsFollow, SidecarFollows, BodyFollows, Promoting, Taking
  <2>4. NoFile = Copies(run.want, 0) /\ 0 \in Nat /\ 0 <= Size[run.want]
    BY <1>0, Sizes DEF NoFile, Copies
  <2>5. \E k \in Nat : dir'.part = Copies(run.want, k) /\ k <= Size[run.want]
    BY <2>1, <2>4
  <2>6. PartFollows' /\ PromotionFollows' /\ LeftoversDoNoHarm'
    BY <2>1, <2>2, <2>5 DEF PartFollows, PromotionFollows, LeftoversDoNoHarm, Copies
  <2> QED
    BY <2>1, <2>3, <2>6 DEF DInv, RunOK
<1> QED
  BY <1>1, <1>2, <1>3 DEF VerifyCandidate, VerifyFresh

\* A tarball has the units of one release only.
LEMMA GenuineOfOne ==
  \A r, s \in Releases : Genuine(r) = Genuine(s) => r = s
BY GenuineIsCopies

LEMMA PromoteSafe ==
  ASSUME DInv, SyncPart \/ Rename \/ Named \/ DropSidecar
  PROVE  DInv'
<1>0. /\ run.pc \in Promoting /\ run.signed = TRUE /\ run.want \in Releases
      /\ run \in Runs /\ DiskOK /\ {flushed, wronged} \subseteq BOOLEAN
      /\ UNCHANGED <<server, wronged>> /\ dir \in Dirs
      /\ server \in [has : Releases, tags : BOOLEAN]
  BY DEF DInv, DiskOK, RunOK, RunTyped, Wanted, Promoting, SyncPart, Rename, Named, DropSidecar,
         Quietly, Serving
<1>1. CASE SyncPart
  <2>1. DiskOK' /\ dir' = dir /\ disk' = {dir'}
    BY <1>0, <1>1, SyncDirSafe DEF SyncPart
  <2>2. dir.side.sig = run.want /\ dir.part = Genuine(run.want)
    BY <1>0, <1>1 DEF DInv, RunOK, SidecarFollows, SyncPart
  <2>3. Goto("rename") /\ flushed' = TRUE /\ "rename" \in Promoting
    BY <1>1 DEF SyncPart, Promoting
  <2> QED
    BY <1>0, <2>1, <2>2, <2>3, VerdictSafe
<1>2. CASE Rename
  <2>1. run.pc = "rename" /\ flushed = TRUE /\ disk = {dir}
    BY <1>2 DEF Rename, DInv, RunOK, PromotionFollows
  <2>2. dir.side.sig = run.want /\ dir.part = Genuine(run.want)
    BY <1>0, <2>1 DEF DInv, RunOK, SidecarFollows
  <2> DEFINE d == [dir EXCEPT !.final = dir.part, !.part = NoFile]
  <2>3. dir' = d /\ disk' = {dir, d}
    BY <1>2, <2>1 DEF Rename
  <2>4. d \in Dirs /\ d.final = Genuine(run.want) /\ d.part = NoFile /\ d.side = dir.side
    BY <1>0, <2>2, EmptySeq DEF Dirs, NoFile
  <2> HIDE DEF d
  <2>5. DiskOK'
    <3>0. /\ Tagged(dir.part, dir.side) /\ (~server.tags => dir.side.etag = Nothing)
          /\ dir.final \in {NoFile} \cup {Genuine(r) : r \in Releases}
      BY <1>0 DEF DiskOK
    <3>1. /\ dir' \in disk' /\ disk' \subseteq Dirs
          /\ \A x \in disk' : Tagged(x.part, x.side) /\ (~server.tags => x.side.etag = Nothing)
      BY <1>0, <2>3, <2>4, <3>0 DEF Tagged
    <3>2. \A x \in disk' : x.final \in {NoFile} \cup {Genuine(r) : r \in Releases}
      BY <1>0, <2>3, <2>4, <3>0
    <3>3. ASSUME NEW r \in Releases, dir'.final = Genuine(r)
          PROVE  \A x \in disk' : x.final = Genuine(r) \/ (x.part = Genuine(r) /\ x.side.sig = r)
      <4>1. r = run.want
        BY <1>0, <2>3, <2>4, <3>3, GenuineOfOne
      <4> QED
        BY <2>2, <2>3, <2>4, <4>1
    <3> QED
      BY <1>0, <3>1, <3>2, <3>3 DEF DiskOK, Tagged, Genuine
  <2>6. Goto("named") /\ flushed' = flushed /\ "named" \in Promoting
    BY <1>2 DEF Rename, Promoting, Quietly
  <2> QED
    BY <1>0, <2>3, <2>4, <2>5, <2>6, VerdictSafe
<1>3. CASE Named
  <2>1. DiskOK' /\ dir' = dir
    BY <1>0, <1>3, SyncDirSafe DEF Named
  <2>2. dir.final = Genuine(run.want)
    BY <1>0, <1>3 DEF DInv, RunOK, PromotionFollows, Named
  <2>3. Goto("unsidecar") /\ flushed' = flushed /\ "unsidecar" \in Promoting
    BY <1>3 DEF Named, Promoting, Quietly
  <2> QED
    BY <1>0, <2>1, <2>2, <2>3, VerdictSafe
<1>4. CASE DropSidecar
  <2>1. DiskOK' /\ dir'.final = dir.final
    BY <1>0, <1>4, DropSideSafe DEF DropSidecar
  <2>2. dir.final = Genuine(run.want)
    BY <1>0, <1>4 DEF DInv, RunOK, PromotionFollows, DropSidecar
  <2>3. Goto("done") /\ flushed' = flushed
    BY <1>4 DEF DropSidecar, Quietly
  <2> QED
    BY <1>0, <2>1, <2>2, <2>3, VerdictSafe
<1> QED
  BY <1>1, <1>2, <1>3, <1>4

LEMMA EndSafe ==
  ASSUME DInv, Extracted \/ Failed
  PROVE  DInv'
<1>0. /\ run \in Runs /\ "idle" \in Pcs /\ DiskOK /\ {flushed, wronged} \subseteq BOOLEAN
      /\ UNCHANGED <<server, flushed, wronged>> /\ (~server.tags => run.meta.etag = Nothing)
      /\ server \in [has : Releases, tags : BOOLEAN] /\ Goto("idle") /\ (Keep \/ ClearAll)
  BY DEF DInv, DiskOK, RunOK, RunTyped, TagsFollow, Extracted, Failed, Quietly, Serving, Pcs
<1>1. run' \in Runs /\ run'.pc = "idle" /\ run'.meta = run.meta
  BY <1>0, GotoFields
<1>2. DiskOK'
  BY <1>0, DiskKept, ClearAllSafe
<1> QED
  BY <1>0, <1>1, <1>2, IdleSafe

-----------------------------------------------------------------------------
(* The rest of a run, and the world around it.                             *)

LEMMA IdleRunFields ==
  /\ IdleRun \in Runs /\ IdleRun.pc = "idle" /\ IdleRun.want = Nothing /\ IdleRun.meta.etag = Nothing
  /\ IdleRun.spent = FALSE /\ IdleRun.refused = FALSE
BY DEF IdleRun, Runs, NoSidecar, Sidecar, Sides, NoBody, Bodies, Units, Pcs

LEMMA BeginSafe ==
  ASSUME DInv, Begin
  PROVE  DInv'
<1>0. /\ Keep /\ UNCHANGED <<server, flushed>> /\ wronged' = FALSE /\ flushed \in BOOLEAN
      /\ server \in [has : Releases, tags : BOOLEAN] /\ DiskOK
  BY DEF DInv, DiskOK, RunOK, RunTyped, Begin, Keep
<1>1. PICK s \in BOOLEAN : run' = [IdleRun EXCEPT !.pc = "feed", !.signed = s]
  BY DEF Begin
<1>2. /\ run' \in Runs /\ run'.pc = "feed" /\ run'.want = Nothing /\ run'.meta.etag = Nothing
      /\ run'.spent = FALSE /\ run'.refused = FALSE
  BY <1>1, IdleRunFields DEF Runs, Pcs
<1>3. DiskOK'
  BY <1>0, DiskKept
<1>4. RunTyped' /\ Wanted' /\ TagsFollow' /\ SidecarFollows' /\ BodyFollows'
  BY <1>0, <1>2 DEF RunTyped, Wanted, TagsFollow, SidecarFollows, BodyFollows, Promoting, Taking
<1>5. PartFollows' /\ PromotionFollows' /\ LeftoversDoNoHarm'
  BY <1>2 DEF PartFollows, PromotionFollows, LeftoversDoNoHarm
<1> QED
  BY <1>3, <1>4, <1>5 DEF DInv, RunOK

LEMMA FetchFeedSafe ==
  ASSUME DInv, FetchFeed
  PROVE  DInv'
<1>0. /\ Keep /\ UNCHANGED <<server, flushed>> /\ flushed \in BOOLEAN /\ wronged' \in BOOLEAN
      /\ server \in [has : Releases, tags : BOOLEAN] /\ DiskOK /\ run \in Runs /\ run.pc = "feed"
      /\ run.want = Nothing /\ (~server.tags => run.meta.etag = Nothing)
      /\ run.spent = FALSE /\ run.refused = FALSE
  BY DEF DInv, DiskOK, RunOK, RunTyped, Wanted, TagsFollow, FetchFeed, Quietly, Wronged, Serving
<1>1. DiskOK'
  BY <1>0, DiskKept
<1>2. /\ run' \in Runs /\ run'.meta = run.meta /\ run'.pc \in {"open", "feed", "failed"}
      /\ run'.spent = FALSE /\ run'.refused = FALSE
      /\ run'.pc = "open" => run'.want \in Releases
      /\ run'.pc # "open" => run'.want = Nothing
      /\ run'.pc = "failed" => wronged' = TRUE \/ run'.failures > RetryDelays
  <2>1. CASE run' = [run EXCEPT !.pc = "open", !.want = server.has, !.failures = 0]
    BY <1>0, <2>1 DEF Runs, Pcs, Units
  <2>2. CASE run' = RetriedUnsigned("feed")
    <3> DEFINE f == run.failures + 1
               p == IF f > RetryDelays THEN "failed" ELSE "feed"
    <3>1. run' = [run EXCEPT !.failures = f, !.body = NoBody, !.pc = p]
      BY <2>2 DEF RetriedUnsigned
    <3>2. f \in Nat /\ NoBody \in Bodies
      BY <1>0 DEF Runs, NoBody, Bodies, Units
    <3>3. p \in {"failed", "feed"} /\ p \in Pcs /\ (p = "failed" => f > RetryDelays)
      BY DEF Pcs
    <3> HIDE DEF f, p
    <3> QED
      BY <1>0, <3>1, <3>2, <3>3 DEF Runs
  <2>3. CASE Goto("failed") /\ Wronged
    <3>1. "failed" \in Pcs /\ wronged' = TRUE
      BY <2>3 DEF Pcs, Wronged
    <3> QED
      BY <1>0, <2>3, <3>1, GotoFields
  <2> QED
    BY <2>1, <2>2, <2>3 DEF FetchFeed
<1>3. RunTyped' /\ Wanted' /\ TagsFollow' /\ SidecarFollows' /\ BodyFollows'
  BY <1>0, <1>2 DEF RunTyped, Wanted, TagsFollow, SidecarFollows, BodyFollows, Promoting, Taking
<1>4. PartFollows' /\ PromotionFollows' /\ LeftoversDoNoHarm'
  BY <1>2 DEF PartFollows, PromotionFollows, LeftoversDoNoHarm
<1> QED
  BY <1>1, <1>3, <1>4 DEF DInv, RunOK

LEMMA OpenSafe ==
  ASSUME DInv, Open
  PROVE  DInv'
<1>0. /\ UNCHANGED <<server, flushed, wronged>> /\ {flushed, wronged} \subseteq BOOLEAN
      /\ server \in [has : Releases, tags : BOOLEAN] /\ DiskOK /\ run \in Runs
      /\ run.want \in Releases /\ (~server.tags => run.meta.etag = Nothing)
      /\ run.signed \in BOOLEAN /\ {"prepare", "done", "request"} \subseteq Pcs
      /\ run.spent = FALSE /\ run.refused = FALSE
  <2>1. run \in Runs /\ DiskOK /\ server \in [has : Releases, tags : BOOLEAN]
        /\ {flushed, wronged} \subseteq BOOLEAN /\ UNCHANGED <<server, flushed, wronged>>
        /\ run.want \in Releases /\ (~server.tags => run.meta.etag = Nothing)
        /\ run.spent = FALSE /\ run.refused = FALSE
    BY DEF DInv, DiskOK, RunOK, RunTyped, Wanted, TagsFollow, Open, Quietly, Serving
  <2> QED
    BY <2>1 DEF Runs, Pcs
<1>1. PICK p \in {"prepare", "done", "request"} :
        /\ Goto(p) /\ (p = "request" => run.signed = FALSE /\ dir'.side.etag = Nothing)
        /\ p # "request" => run.signed = TRUE
        /\ p = "done" => dir'.final = Genuine(run.want)
        /\ DiskOK'
  <2>1. CASE run.signed /\ Keep /\ Goto("prepare")
    BY <1>0, <2>1, DiskKept
  <2>2. CASE run.signed /\ dir.final = Genuine(run.want) /\ DropPartial /\ Goto("done")
    BY <1>0, <2>2, DropPartialSafe
  <2>3. CASE run.signed /\ ClearAll /\ Goto("prepare")
    BY <1>0, <2>3, ClearAllSafe
  <2>4. CASE ~run.signed /\ ClearAll /\ Goto("request")
    BY <1>0, <2>4, ClearAllSafe
  <2> QED
    BY <2>1, <2>2, <2>3, <2>4 DEF Open
<1>2. /\ run' \in Runs /\ run'.pc = p /\ run'.want = run.want /\ run'.signed = run.signed
      /\ run'.meta = run.meta /\ run'.spent = FALSE /\ run'.refused = FALSE
  BY <1>0, <1>1, GotoFields
<1>3. RunTyped' /\ Wanted' /\ TagsFollow' /\ SidecarFollows' /\ BodyFollows'
  BY <1>0, <1>1, <1>2 DEF RunTyped, Wanted, TagsFollow, SidecarFollows, BodyFollows, Promoting, Taking
<1>4. PartFollows' /\ PromotionFollows' /\ LeftoversDoNoHarm'
  BY <1>1, <1>2 DEF PartFollows, PromotionFollows, LeftoversDoNoHarm, Genuine
<1> QED
  BY <1>1, <1>3, <1>4 DEF DInv, RunOK

LEMMA PrepareSafe ==
  ASSUME DInv, PrepareSigned
  PROVE  DInv'
<1>0. /\ UNCHANGED <<server, flushed, wronged>> /\ {flushed, wronged} \subseteq BOOLEAN
      /\ server \in [has : Releases, tags : BOOLEAN] /\ DiskOK /\ run \in Runs /\ run.signed = TRUE
      /\ run.want \in Releases /\ run.want \in Units /\ dir.side \in Sides
      /\ ~server.tags => dir.side.etag = Nothing
      /\ run.spent = FALSE /\ run.refused = FALSE
  BY DEF DInv, DiskOK, RunOK, RunTyped, Wanted, PrepareSigned, Quietly, Serving, Units, Dirs
<1>1. PICK m \in Sides :
        /\ run' = [run EXCEPT !.pc = "request", !.meta = m]
        /\ m.sig = run.want /\ (~server.tags => m.etag = Nothing)
        /\ dir'.part # NoFile => dir'.side = m
        /\ DiskOK'
  <2>1. CASE dir.side.sig = run.want /\ run' = [run EXCEPT !.pc = "request", !.meta = dir.side] /\ Keep
    <3>1. DiskOK' /\ dir' = dir
      BY <1>0, <2>1, DiskKept DEF Keep
    <3> QED
      BY <1>0, <2>1, <3>1
  <2>2. CASE /\ run' = [run EXCEPT !.pc = "request", !.meta = Sidecar(run.want, Nothing, 0)]
             /\ DropPartial
    <3> DEFINE m == Sidecar(run.want, Nothing, 0)
    <3>1. DiskOK' /\ dir'.part = NoFile
      BY <1>0, <2>2, DropPartialSafe
    <3>2. m \in Sides /\ m.sig = run.want /\ m.etag = Nothing
      BY <1>0 DEF Sidecar, Sides, Units
    <3>3. run' = [run EXCEPT !.pc = "request", !.meta = m]
      BY <2>2
    <3> HIDE DEF m
    <3> QED
      BY <3>1, <3>2, <3>3
  <2> QED
    BY <2>1, <2>2 DEF PrepareSigned
<1>2. /\ run' \in Runs /\ run'.pc = "request" /\ run'.want = run.want /\ run'.signed = TRUE
      /\ run'.meta = m /\ run'.spent = FALSE /\ run'.refused = FALSE
  BY <1>0, <1>1 DEF Runs, Pcs
<1>3. RunTyped' /\ Wanted' /\ TagsFollow' /\ SidecarFollows' /\ BodyFollows'
  BY <1>0, <1>1, <1>2 DEF RunTyped, Wanted, TagsFollow, SidecarFollows, BodyFollows, Promoting, Taking
<1>4. PartFollows' /\ PromotionFollows' /\ LeftoversDoNoHarm'
  BY <1>2 DEF PartFollows, PromotionFollows, LeftoversDoNoHarm
<1> QED
  BY <1>1, <1>3, <1>4 DEF DInv, RunOK

\* A step that leaves the run and the directory alone.
LEMMA RunKept ==
  ASSUME RunOK, UNCHANGED <<dir, disk, flushed, run, wronged>>, server'.tags = server.tags
  PROVE  RunOK'
<1>1. RunTyped' /\ Wanted' /\ LeftoversDoNoHarm'
  BY DEF RunOK, RunTyped, Wanted, LeftoversDoNoHarm
<1>2. TagsFollow'
  BY DEF RunOK, TagsFollow, Tagged
<1>3. SidecarFollows'
  BY DEF RunOK, SidecarFollows, Genuine
<1>4. BodyFollows'
  BY DEF RunOK, BodyFollows, Copies
<1>5. PartFollows'
  BY DEF RunOK, PartFollows, Copies, Genuine
<1>6. PromotionFollows'
  BY DEF RunOK, PromotionFollows, Genuine
<1> QED
  BY <1>1, <1>2, <1>3, <1>4, <1>5, <1>6 DEF RunOK

LEMMA NewReleaseSafe ==
  ASSUME DInv, NewRelease
  PROVE  DInv'
<1>0. /\ Keep /\ UNCHANGED <<dir, disk, flushed, run, wronged>> /\ server'.tags = server.tags
      /\ server' \in [has : Releases, tags : BOOLEAN]
  BY DEF DInv, DiskOK, NewRelease, Keep
<1> QED
  BY <1>0, DiskKept, RunKept DEF DInv

LEMMA KilledSafe ==
  ASSUME DInv, Killed
  PROVE  DInv'
<1>0. /\ Keep /\ UNCHANGED <<server, flushed, wronged>> /\ run' = IdleRun
      /\ server \in [has : Releases, tags : BOOLEAN] /\ DiskOK /\ {flushed, wronged} \subseteq BOOLEAN
  BY DEF DInv, DiskOK, RunOK, RunTyped, Killed, Keep
<1>1. DiskOK'
  BY <1>0, DiskKept
<1> QED
  BY <1>0, <1>1, IdleRunFields, IdleSafe

\* Contents cut short or damaged keep their first unit, or have one of no release.
LEMMA TornParts ==
  ASSUME NEW s \in Seq(Units), NEW c \in Torn(s)
  PROVE  /\ c \in Seq(Units)
         /\ c # NoFile /\ c[1] \in Releases => s # NoFile /\ c[1] = s[1]
<1>0. Len(s) \in Nat /\ (Len(s) = 0 <=> s = NoFile) /\ Nothing \in Units /\ Nothing \notin Releases
  BY EmptySeq, LenProperties, DownloadAssumption DEF NoFile, Units
<1>1. CASE \E k \in 0..Len(s) : c = SubSeq(s, 1, k)
  <2>1. PICK k \in 0..Len(s) : c = SubSeq(s, 1, k)
    BY <1>1
  <2>2. c \in Seq(Units) /\ Len(c) = k /\ \A i \in 1..k : c[i] = s[i]
    BY <1>0, <2>1, SubSeqProperties
  <2>3. c # NoFile => k > 0 /\ s # NoFile
    BY <1>0, <2>1, <2>2, EmptySeq DEF NoFile
  <2> QED
    BY <2>2, <2>3
<1>2. CASE \E k \in 1..Len(s) : c = [s EXCEPT ![k] = Nothing]
  <2>1. PICK k \in 1..Len(s) : c = [s EXCEPT ![k] = Nothing]
    BY <1>2
  <2>2. c \in Seq(Units) /\ s # NoFile
    BY <1>0, <2>1, ExceptSeq
  <2>3. c[1] \in {s[1], Nothing}
    BY <1>0, <2>1
  <2> QED
    BY <1>0, <2>2, <2>3
<1> QED
  BY <1>1, <1>2 DEF Torn

LEMMA PowerLossSafe ==
  ASSUME DInv, PowerLoss
  PROVE  DInv'
<1>0. /\ UNCHANGED <<server, wronged>> /\ run' = IdleRun /\ flushed' = FALSE
      /\ DiskOK /\ wronged \in BOOLEAN
  BY DEF DInv, RunOK, RunTyped, PowerLoss
<1>1. PICK d \in disk : \E c \in IF flushed THEN {d.part} ELSE Torn(d.part) :
                         dir' = [d EXCEPT !.part = c] /\ disk' = {dir'}
  BY DEF PowerLoss
<1>2. PICK c \in {d.part} \cup Torn(d.part) : dir' = [d EXCEPT !.part = c] /\ disk' = {dir'}
  BY <1>1
<1>3. /\ d \in Dirs /\ d.part \in Seq(Units) /\ Tagged(d.part, d.side)
      /\ ~server.tags => d.side.etag = Nothing
      /\ d.final \in {NoFile} \cup {Genuine(r) : r \in Releases}
  BY <1>0 DEF DiskOK, Dirs
<1>4. /\ c \in Seq(Units)
      /\ c # NoFile /\ c[1] \in Releases => d.part # NoFile /\ c[1] = d.part[1]
  BY <1>2, <1>3, TornParts
<1>5. /\ dir' \in Dirs /\ disk' = {dir'} /\ dir'.part = c /\ dir'.side = d.side
      /\ dir'.final = d.final
  BY <1>2, <1>3, <1>4 DEF Dirs
<1>6. DiskOK'
  <2>1. Tagged(dir'.part, dir'.side)
    BY <1>3, <1>4, <1>5 DEF Tagged
  <2> QED
    BY <1>0, <1>3, <1>5, <2>1, DiskSynced
<1> QED
  BY <1>0, <1>6, IdleRunFields, IdleSafe

LEMMA InitSafe == Init => DInv
<1> SUFFICES ASSUME Init PROVE DInv
  OBVIOUS
<1>1. EmptyDir \in Dirs /\ EmptyDir.part = NoFile /\ EmptyDir.final = NoFile /\ EmptyDir.side.etag = Nothing
  BY EmptySeq DEF EmptyDir, Dirs, NoFile, NoSidecar, Sidecar, Sides, Units
<1>2. DiskOK
  <2>1. \A r \in Releases : Genuine(r) # NoFile
    BY GenuineIsCopies
  <2> QED
    BY <1>1, <2>1 DEF Init, DiskOK, Tagged
<1>3. RunTyped /\ Wanted /\ TagsFollow /\ SidecarFollows /\ BodyFollows
  BY IdleRunFields
     DEF Init, RunTyped, Wanted, TagsFollow, SidecarFollows, BodyFollows, Promoting, Taking
<1>4. PartFollows /\ PromotionFollows /\ LeftoversDoNoHarm
  BY IdleRunFields DEF Init, PartFollows, PromotionFollows, LeftoversDoNoHarm
<1> QED
  BY <1>2, <1>3, <1>4 DEF DInv, RunOK

LEMMA NextSafe == DInv /\ [Next]_vars => DInv'
<1> SUFFICES ASSUME DInv, [Next]_vars PROVE DInv'
  OBVIOUS
<1>1. CASE Begin
  BY <1>1, BeginSafe
<1>2. CASE FetchFeed \/ Open \/ PrepareSigned
  BY <1>2, FetchFeedSafe, OpenSafe, PrepareSafe
<1>3. CASE Answer
  BY <1>3, RefusalsSafe, NotSatisfiableSafe, PartialContentSafe, FullSafe DEF Answer
<1>4. CASE Restart \/ Unpublish \/ Publish \/ Truncate \/ Chunk \/ Breaks \/ Overruns \/ Received
  BY <1>4, RestartSafe, UnpublishSafe, PublishSafe, TruncateSafe, ChunkSafe, StreamEndsSafe, ReceivedSafe
<1>5. CASE VerifyCandidate \/ VerifyFresh \/ SyncPart \/ Rename \/ Named \/ DropSidecar
  BY <1>5, VerifySafe, PromoteSafe
<1>6. CASE Extracted \/ Failed
  BY <1>6, EndSafe
<1>7. CASE NewRelease \/ Killed \/ PowerLoss
  BY <1>7, NewReleaseSafe, KilledSafe, PowerLossSafe
<1>8. CASE UNCHANGED vars
  <2>1. UNCHANGED <<dir, disk, flushed, run, server, wronged>>
    BY <1>8 DEF vars
  <2>2. DiskOK'
    BY <2>1, DiskKept DEF DInv, DiskOK, Keep
  <2> QED
    BY <2>1, <2>2, RunKept DEF DInv
<1> QED
  BY <1>1, <1>2, <1>3, <1>4, <1>5, <1>6, <1>7, <1>8 DEF Next, Step

-----------------------------------------------------------------------------
\* The loop of a run and its directory keep the inductive invariant, whatever
\* the server answers and wherever the process is killed or loses power.
THEOREM DownloadInvariant == Spec => []DInv
BY InitSafe, NextSafe, PTL DEF Spec

\* promote syncs the contents before it names them: the final name stands for
\* complete, verified contents or for nothing, and from the rename on a power
\* loss leaves the verified tarball under one of its two names.
THEOREM FinalTarballIsWhole == Spec => []FinalIsWhole
<1>1. DInv => FinalIsWhole
  <2> SUFFICES ASSUME DInv PROVE FinalIsWhole
    OBVIOUS
  <2>1. \A d \in disk : d.final \in {NoFile} \cup {Genuine(r) : r \in Releases}
    BY DEF DInv, DiskOK
  <2>2. ASSUME run.signed, run.pc \in {"rename", "named", "unsidecar", "done"}
        PROVE  \A d \in disk : \/ d.final = Genuine(run.want)
                               \/ d.part = Genuine(run.want) /\ d.side.sig = run.want
    <3>1. run.want \in Releases
      BY <2>2 DEF DInv, RunOK, Wanted
    <3>2. CASE run.pc = "rename"
      BY <2>2, <3>2 DEF DInv, RunOK, PromotionFollows, SidecarFollows
    <3>3. CASE run.pc # "rename"
      BY <2>2, <3>1, <3>3 DEF DInv, DiskOK, RunOK, PromotionFollows
    <3> QED
      BY <3>2, <3>3
  <2> QED
    BY <2>1, <2>2 DEF FinalIsWhole
<1> QED
  BY <1>1, DownloadInvariant, PTL

\* verify_candidate gives a retained partial that does not verify one clean
\* retry: a run fails only when its server wronged it or its FailureBudget is
\* used up, never because of what an earlier run left.
THEOREM LeftoversAreHarmless == Spec => []LeftoversDoNoHarm
<1>1. DInv => LeftoversDoNoHarm
  BY DEF DInv, RunOK
<1> QED
  BY <1>1, DownloadInvariant, PTL

LEMMA PrefixFacts ==
  ASSUME NEW r \in Releases, NEW k \in 0..Size[r], NEW s, s = SubSeq(Genuine(r), 1, k)
  PROVE  /\ s \in Seq(Units) /\ Len(s) = k
         /\ s # NoFile => s[1] = r
         /\ k = Size[r] => s = Genuine(r)
<1>1. /\ Genuine(r) \in Seq(Units) /\ Len(Genuine(r)) = Size[r] /\ Genuine(r)[1] = r /\ Size[r] \in Nat
  BY GenuineIsCopies, Sizes
<1>2. s \in Seq(Units) /\ Len(s) = k /\ \A i \in 1..k : s[i] = Genuine(r)[i]
  <2> DEFINE g == Genuine(r)
  <2>1. g \in Seq(Units) /\ k \in 0..Len(g) /\ s = SubSeq(g, 1, k)
    BY <1>1
  <2> HIDE DEF g
  <2>2. s \in Seq(Units) /\ Len(s) = k /\ \A i \in 1..k : s[i] = g[i]
    BY <2>1, SubSeqProperties
  <2> QED
    BY <2>2 DEF g
<1>3. s # NoFile => k > 0
  BY <1>2, EmptySeq DEF NoFile
<1>4. k = Size[r] => s = Genuine(r)
  BY <1>1, <1>2, SeqEqual
<1> QED
  BY <1>1, <1>2, <1>3, <1>4

LEMMA PartIsKept ==
  ASSUME DInv, [Next]_vars, run.signed, run.pc \in {"request", "restart", "stream", "verify"},
         run'.pc # "idle",
         dir.part \in {SubSeq(Genuine(run.want), 1, k) : k \in 0..Size[run.want]},
         dir.side.total \in {0, Size[run.want]}, ~wronged'
  PROVE  Len(dir'.part) >= Len(dir.part)
<1>0. run.want \in Releases /\ Size[run.want] \in Nat
  BY Sizes DEF DInv, RunOK, Wanted
<1>1. PICK k \in 0..Size[run.want] : dir.part = SubSeq(Genuine(run.want), 1, k)
  OBVIOUS
<1>2. /\ dir.part \in Seq(Units) /\ Len(dir.part) = k /\ k \in Nat
      /\ dir.part # NoFile => dir.part[1] = run.want
      /\ k = Size[run.want] => dir.part = Genuine(run.want)
  <2>1. k \in Nat
    BY <1>0
  <2>2. /\ dir.part \in Seq(Units) /\ Len(dir.part) = k
        /\ dir.part # NoFile => dir.part[1] = run.want
        /\ k = Size[run.want] => dir.part = Genuine(run.want)
    BY <1>0, <1>1, PrefixFacts, Zenon
  <2> QED
    BY <2>1, <2>2
<1>3. CASE Keep
  BY <1>2, <1>3 DEF Keep
<1>4. CASE Restart
  <2>1. ~wronged /\ run.pc = "restart"
    BY <1>4 DEF Restart, Quietly
  <2>2. dir.part = NoFile
    BY <1>2, <2>1 DEF DInv, RunOK, PartFollows
  <2>3. dir'.part = NoFile
    BY <1>4, DropPartSafe DEF DInv, Restart, Quietly, Serving
  <2> QED
    BY <1>2, <2>2, <2>3
<1>5. CASE Chunk
  <2>1. dir' = [dir EXCEPT !.part = Append(dir.part, run.body.of)] /\ dir \in Dirs /\ run.body.of \in Units
    BY <1>5, WritesSteps DEF Chunk, DInv, DiskOK, RunOK, RunTyped, Runs, Bodies
  <2>2. dir'.part = Append(dir.part, run.body.of)
    BY <2>1 DEF Dirs
  <2> QED
    BY <1>2, <2>1, <2>2, AppendProperties
<1>6. CASE VerifyCandidate
  <2>1. CASE Verified
    BY <1>3, <1>6, <2>1 DEF VerifyCandidate
  <2>2. CASE ~Verified
    <3>1. Len(dir.part) >= Size[run.want]
      BY <1>6 DEF VerifyCandidate, Quietly, DInv, RunOK, PartFollows
    <3> QED
      BY <1>0, <1>2, <2>2, <3>1 DEF Verified
  <2> QED
    BY <2>1, <2>2
<1>7. CASE Begin \/ FetchFeed \/ Open \/ PrepareSigned \/ Unpublish \/ Publish \/ Truncate
  BY <1>7 DEF Begin, FetchFeed, Open, PrepareSigned, Unpublish, Publish, Truncate
<1>8. CASE VerifyFresh \/ SyncPart \/ Rename \/ Named \/ DropSidecar \/ Extracted \/ Failed
  BY <1>8 DEF VerifyFresh, SyncPart, Rename, Named, DropSidecar, Extracted, Failed
<1>9. CASE Answer \/ Breaks \/ Overruns \/ Received \/ NewRelease \/ UNCHANGED vars
  BY <1>3, <1>9 DEF Answer, Blip, Busy, NotImplemented, Unusable, NotSatisfiable, PartialContent, Full,
                    Asking, Breaks, Overruns, Received, NewRelease, Keep, vars
<1>10. CASE Killed \/ PowerLoss
  BY <1>10, IdleRunFields DEF Killed, PowerLoss
<1> QED
  BY <1>4, <1>5, <1>6, <1>7, <1>8, <1>9, <1>10 DEF Next, Step

\* RANGED_ERRORS_BEFORE_PLAIN, "a network blip must not cost the partial": no
\* step of the loop shortens a partial of the wanted release in a run whose
\* server gave no reason for it.
THEOREM BlipsAreHarmless == Spec => BlipsKeepThePartial
<1>1. DInv /\ [Next]_vars =>
        [run.signed /\ run.pc \in {"request", "restart", "stream", "verify"} /\ run'.pc # "idle"
           /\ dir.part \in {SubSeq(Genuine(run.want), 1, k) : k \in 0..Size[run.want]}
           /\ dir.side.total \in {0, Size[run.want]} /\ ~wronged'
         => Len(dir'.part) >= Len(dir.part)]_vars
  BY PartIsKept
<1> QED
  BY <1>1, DownloadInvariant, PTL DEF Spec, BlipsKeepThePartial
=============================================================================
