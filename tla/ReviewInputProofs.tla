------------------------- MODULE ReviewInputProofs -------------------------
(***************************************************************************)
(* Proofs about ReviewInput: what is acquired from a platform, for every   *)
(* number of versions and pages, and what the parser keeps from line to    *)
(* line, for every document that is made of the lines it tells apart.      *)
(***************************************************************************)
EXTENDS ReviewInput, DataTheorems

USE PagesOfAssumption

-----------------------------------------------------------------------------
(* Acquisition from a platform: the inductive invariant                    *)

Versions == 1 .. Len(PagesOf)

FileRecord == [version : Nat, page : Nat, shape : Shapes]

Fetching == {"pages", "diff", "commit", "committed"}

Codes == {FaultCode[fault] : fault \in Faults}
         \cup {"none", "provider_response_invalid", "uncaught", "input_incomplete",
               "url_provider_not_configured", "invalid_source_url", "change_request_closed",
               "input_too_large", "security_boundary_failed"}

RemoteType ==
    /\ platform \in [head : Versions, open : BOOLEAN]
    /\ remote \in [step : {"idle", "metadata", "failed"} \cup Fetching,
                   provider : {"none", "github", "gitlab"}, head : Nat,
                   page : Nat \ {0}, files : Seq(FileRecord), code : Codes]

\* The files are those of the first n pages of a version.
PagesRead(files, version, n) ==
    /\ Len(files) = n
    /\ \A k \in 1 .. n : files[k].version = version /\ files[k].page = k

\* While the head is the head of the request, what was read are its pages.
ReadInv ==
    /\ remote.step \in {"idle", "metadata"} => remote.page = 1 /\ remote.files = <<>>
    /\ remote.step \in Fetching => remote.head <= platform.head
    /\ remote.head = platform.head =>
          /\ remote.step = "pages" => /\ remote.page <= PagesOf[remote.head]
                                      /\ PagesRead(remote.files, remote.head, remote.page - 1)
          /\ remote.step = "commit" => PagesRead(remote.files, remote.head, PagesOf[remote.head])
          /\ remote.step = "committed" => remote.files = WholeDiff(remote.head)

RemoteInv == RemoteType /\ ReadInv

-----------------------------------------------------------------------------
(* Facts about the operators                                               *)

\* Every version has a page.
LEMMA PagesType == \A v \in Versions : PagesOf[v] \in Nat \ {0}
  BY DEF Versions

\* The diff of a version is a sequence of its pages.
LEMMA WholeDiffPages ==
  ASSUME NEW v \in Versions
  PROVE  /\ WholeDiff(v) \in Seq(FileRecord)
         /\ Len(WholeDiff(v)) = PagesOf[v]
         /\ \A k \in 1 .. PagesOf[v] : WholeDiff(v)[k] = File(v, k, "whole")
         /\ PagesRead(WholeDiff(v), v, PagesOf[v])
  <1> DEFINE n == PagesOf[v]
  <1>1. n \in Nat /\ v \in Nat
    BY PagesType DEF Versions
  <1>2. WholeDiff(v) = [k \in 1 .. n |-> File(v, k, "whole")]
    BY DEF WholeDiff
  <1>3. \A k \in 1 .. n : File(v, k, "whole") \in FileRecord
    BY <1>1 DEF File, FileRecord, Shapes
  <1> HIDE DEF n
  <1>4. WholeDiff(v) \in [1 .. n -> FileRecord]
    BY <1>2, <1>3
  <1>5. WholeDiff(v) \in Seq(FileRecord) /\ Len(WholeDiff(v)) = n
    BY <1>1, <1>4
  <1>6. ASSUME NEW k \in 1 .. n
        PROVE  /\ WholeDiff(v)[k] = File(v, k, "whole")
               /\ WholeDiff(v)[k].version = v /\ WholeDiff(v)[k].page = k
    <2>1. WholeDiff(v)[k] = File(v, k, "whole")
      BY <1>2
    <2>2. QED BY <2>1 DEF File
  <1>7. QED BY <1>5, <1>6 DEF n, PagesRead

\* Pages of one version that are all whole are its diff.
LEMMA WholePages ==
  ASSUME RemoteType, remote.head \in Versions, PagesRead(remote.files, remote.head, PagesOf[remote.head]),
         Whole(remote.files)
  PROVE  remote.files = WholeDiff(remote.head)
  <1> DEFINE v == remote.head
             n == PagesOf[v]
  <1>1. n \in Nat /\ remote.files \in Seq(FileRecord) /\ Len(remote.files) = n
    BY PagesType DEF RemoteType, PagesRead
  <1>2. ASSUME NEW k \in 1 .. n PROVE remote.files[k] = File(v, k, "whole")
    <2>1. remote.files[k] \in FileRecord /\ k \in DOMAIN remote.files
      BY <1>1
    <2>2. remote.files[k].version = v /\ remote.files[k].page = k
      BY DEF PagesRead
    <2>3. remote.files[k].shape = "whole"
      BY <2>1 DEF Whole
    <2>4. QED BY <2>1, <2>2, <2>3 DEF FileRecord, File
  <1>3. WholeDiff(v) \in Seq(FileRecord) /\ Len(WholeDiff(v)) = n
        /\ \A k \in 1 .. n : WholeDiff(v)[k] = File(v, k, "whole")
    BY WholeDiffPages
  <1>4. \A k \in 1 .. n : remote.files[k] = WholeDiff(v)[k]
    BY <1>2, <1>3
  <1> HIDE DEF n
  <1>5. QED BY <1>1, <1>3, <1>4, SeqEqual

\* What a page adds.
LEMMA PageAdds ==
  ASSUME RemoteType, NEW answer \in PageAnswers
  PROVE  /\ remote.files \o OnPage(remote.page, answer) \in Seq(FileRecord)
         /\ (/\ remote.head = platform.head /\ answer # "overflow"
             /\ remote.page <= PagesOf[remote.head] /\ PagesRead(remote.files, remote.head, remote.page - 1))
               => PagesRead(remote.files \o OnPage(remote.page, answer), remote.head, remote.page)
  <1> DEFINE shape == IF answer \in Shapes THEN answer ELSE "whole"
             f == File(platform.head, remote.page, shape)
  <1>1. /\ f \in FileRecord /\ remote.files \in Seq(FileRecord) /\ remote.page \in Nat \ {0}
        /\ platform.head \in Nat
        /\ f.version = platform.head /\ f.page = remote.page
    BY DEF RemoteType, File, FileRecord, Versions, Shapes
  <1>2. OnPage(remote.page, answer) \in {<<>>, <<f>>}
    BY DEF OnPage
  <1> HIDE DEF f
  <1>3. remote.files \o OnPage(remote.page, answer) \in Seq(FileRecord)
    <2>1. <<>> \in Seq(FileRecord) /\ <<f>> \in Seq(FileRecord)
      BY <1>1
    <2>2. QED BY <1>1, <1>2, <2>1, ConcatProperties
  <1>4. ASSUME remote.head = platform.head, answer # "overflow",
               remote.page <= PagesOf[remote.head], PagesRead(remote.files, remote.head, remote.page - 1)
        PROVE  PagesRead(remote.files \o OnPage(remote.page, answer), remote.head, remote.page)
    <2>1. PagesOf[platform.head] \in Nat
      BY PagesType DEF RemoteType
    <2>2. OnPage(remote.page, answer) = <<f>>
      BY <1>1, <1>4, <2>1 DEF OnPage, f
    <2> DEFINE files == remote.files \o <<f>>
    <2>3. Len(remote.files) = remote.page - 1
      BY <1>4 DEF PagesRead
    <2>4. /\ Len(files) = remote.page /\ files[remote.page] = f
          /\ \A k \in 1 .. remote.page - 1 : files[k] = remote.files[k]
      <3>1. <<f>> \in Seq(FileRecord) /\ Len(<<f>>) = 1 /\ <<f>>[1] = f
        BY <1>1
      <3>2. /\ Len(files) = Len(remote.files) + Len(<<f>>)
            /\ \A k \in 1 .. Len(remote.files) : files[k] = remote.files[k]
            /\ \A k \in Len(remote.files) + 1 .. Len(remote.files) + Len(<<f>>) :
                  files[k] = <<f>>[k - Len(remote.files)]
        <4>1. remote.files \in Seq(FileRecord)
          BY <1>1
        <4> HIDE DEF files
        <4>2. QED BY <3>1, <4>1, ConcatProperties DEF files
      <3> HIDE DEF files
      <3>3. Len(files) = remote.page
        BY <1>1, <2>3, <3>1, <3>2
      <3>4. remote.page \in Len(remote.files) + 1 .. Len(remote.files) + Len(<<f>>)
            /\ remote.page - Len(remote.files) = 1
        BY <1>1, <2>3, <3>1
      <3>5. files[remote.page] = f
        BY <3>1, <3>2, <3>4
      <3>6. QED BY <2>3, <3>2, <3>3, <3>5
    <2>5. ASSUME NEW k \in 1 .. remote.page
          PROVE  files[k].version = remote.head /\ files[k].page = k
      <3>1. CASE k = remote.page
        BY <1>1, <1>4, <2>4, <3>1
      <3>2. CASE k # remote.page
        <4>1. k \in 1 .. remote.page - 1
          BY <1>1, <3>2
        <4>2. QED BY <1>4, <2>4, <4>1 DEF PagesRead
      <3>3. QED BY <3>1, <3>2
    <2>6. QED BY <2>2, <2>4, <2>5 DEF PagesRead
  <1>5. QED BY <1>3, <1>4

-----------------------------------------------------------------------------
(* Every step keeps the invariant                                          *)

\* An acquisition that has failed claims nothing.
LEMMA FailedStep ==
  ASSUME RemoteType, NEW code \in Codes, Fail(code), UNCHANGED platform
  PROVE  RemoteInv'
  <1>1. RemoteType' /\ remote'.step = "failed"
    BY DEF RemoteType, Fail
  <1>2. QED BY <1>1 DEF RemoteInv, ReadInv, Fetching

\* What a request fails with is a code.
LEMMA CodeType ==
  /\ \A fault \in Faults : FaultCode[fault] \in Codes
  /\ Unreadable \in Codes
  /\ \A answer \in PageAnswers : PageFault(answer) \in Codes
  /\ \A large \in BOOLEAN, scan \in Scans : CommitFault(large, scan) \in Codes
  <1>1. \A fault \in Faults : FaultCode[fault] \in Codes
    BY DEF Codes
  <1>2. Unreadable \in Codes
    BY DEF Unreadable, Codes
  <1>3. \A c \in {"none", "provider_response_invalid", "uncaught", "input_incomplete",
               "url_provider_not_configured", "invalid_source_url", "change_request_closed",
               "input_too_large", "security_boundary_failed"} : c \in Codes
    BY DEF Codes
  <1>4. \A answer \in PageAnswers : PageFault(answer) \in Codes
    BY <1>1, <1>2, <1>3 DEF PageFault
  <1>5. \A large \in BOOLEAN, scan \in Scans : CommitFault(large, scan) \in Codes
    BY <1>1, <1>2, <1>3 DEF CommitFault
  <1>6. QED BY <1>1, <1>2, <1>4, <1>5

\* The platform and the requests keep the invariant.
LEMMA RemoteStep ==
  ASSUME RemoteInv, [RemoteNext]_remoteVars
  PROVE  RemoteInv'
  <1> USE DEF RemoteInv
  <1>0. /\ platform.head \in Versions /\ platform.head \in Nat \ {0}
        /\ PagesOf[platform.head] \in Nat \ {0}
        /\ remote.head \in Nat /\ remote.page \in Nat \ {0}
    BY PagesType DEF RemoteType, Versions
  <1>1. CASE Push
    <2>1. platform' \in [head : Versions, open : BOOLEAN] /\ platform'.head = platform.head + 1
      <3>1. /\ platform' = [platform EXCEPT !.head = platform.head + 1]
            /\ platform.head + 1 <= Len(PagesOf)
        BY <1>0, <1>1 DEF Push, Versions
      <3>2. platform.head + 1 \in Versions
        BY <1>0, <3>1 DEF Versions
      <3>3. QED BY <3>1, <3>2 DEF RemoteType
    <2>2. remote' = remote
      BY <1>1 DEF Push
    <2>3. QED BY <1>0, <2>1, <2>2 DEF RemoteType, ReadInv
  <1>2. CASE Close \/ UNCHANGED remoteVars
    <2>1. platform' \in [head : Versions, open : BOOLEAN] /\ platform'.head = platform.head
      BY <1>2 DEF Close, remoteVars, RemoteType
    <2>2. remote' = remote
      BY <1>2 DEF Close, remoteVars
    <2>3. QED BY <2>1, <2>2 DEF RemoteType, ReadInv, PagesRead
  <1>3. ASSUME NEW provider \in {"github", "gitlab", "plain"}, NEW valid \in BOOLEAN,
               AcquireUrl(provider, valid)
        PROVE  RemoteInv'
    <2>1. CASE provider = "plain" \/ ~valid
      <3>1. PICK code \in Codes : Fail(code) /\ UNCHANGED platform
        BY <1>3, <2>1 DEF AcquireUrl, Codes
      <3>2. QED BY <3>1, FailedStep
    <2>2. CASE ~(provider = "plain" \/ ~valid)
      BY <1>3, <2>2 DEF AcquireUrl, RemoteType, ReadInv, Fetching
    <2>3. QED BY <2>1, <2>2
  <1>4. ASSUME NEW answer \in MetadataAnswers, ReadMetadata(answer) PROVE RemoteInv'
    <2>1. CASE \E code \in Codes : Fail(code)
      BY <1>4, <2>1, FailedStep DEF ReadMetadata
    <2>3. "change_request_closed" \in Codes /\ "uncaught" \in Codes
      BY DEF Codes
    <2>2. CASE /\ remote' = [remote EXCEPT !.step = "pages",
                                           !.head = IF answer = "ok" THEN platform.head ELSE 0]
               /\ remote.step = "metadata" /\ UNCHANGED platform
      <3>1. RemoteType'
        BY <1>0, <2>2 DEF RemoteType, Fetching
      <3>2. remote'.step = "pages" /\ remote'.head \in {0, platform.head}
            /\ remote'.page = remote.page /\ remote'.files = remote.files
            /\ platform' = platform
        BY <2>2 DEF RemoteType
      <3>3. remote.step = "metadata" => remote.page = 1 /\ remote.files = <<>>
        BY DEF ReadInv
      <3>4. QED BY <1>0, <2>2, <3>1, <3>2, <3>3 DEF ReadInv, PagesRead
    <2>4. QED BY <1>4, <2>1, <2>2, <2>3, CodeType DEF ReadMetadata
  <1>5. ASSUME NEW answer \in PageAnswers, ReadPage(answer) PROVE RemoteInv'
    <2>1. CASE \E code \in Codes : Fail(code)
      BY <1>5, <2>1, FailedStep DEF ReadPage
    <2>4. "uncaught" \in Codes
      BY DEF Codes
    <2>2. CASE ~ \E code \in Codes : Fail(code)
      <3> DEFINE files == remote.files \o OnPage(remote.page, answer)
                 folded == /\ remote.provider = "github" /\ ~HasNext(remote.page)
                           /\ FirstFlawIs(files, "folded")
      <3>0. PageFault(answer) = "none"
        BY <1>5, <2>2, CodeType DEF ReadPage
      <3>1. /\ files \in Seq(FileRecord)
            /\ (/\ remote.head = platform.head /\ answer # "overflow"
                /\ remote.page <= PagesOf[remote.head] /\ PagesRead(remote.files, remote.head, remote.page - 1))
                  => PagesRead(files, remote.head, remote.page)
        BY PageAdds
      <3>2. answer # "overflow"
        BY <3>0 DEF PageFault, Unreadable, Faults, FaultCode
      <3> HIDE DEF files, folded
      <3>3. /\ remote.step = "pages" /\ UNCHANGED platform
            /\ remote'.step = (IF HasNext(remote.page) THEN "pages"
                               ELSE IF folded THEN "diff"
                               ELSE "commit")
            /\ remote'.page = remote.page + 1 /\ remote'.files = files
            /\ remote'.head = remote.head
            /\ RemoteType'
        <4>1. /\ remote.step = "pages" /\ UNCHANGED platform
              /\ remote' = [remote EXCEPT
                    !.files = files,
                    !.page  = @ + 1,
                    !.step  = IF HasNext(remote.page) THEN "pages"
                              ELSE IF folded THEN "diff"
                              ELSE "commit"]
          BY <1>5, <2>2, <2>4, <3>0 DEF ReadPage, files, folded
        <4>2. remote.page + 1 \in Nat \ {0}
          BY <1>0
        <4>3. /\ remote'.step = (IF HasNext(remote.page) THEN "pages"
                                 ELSE IF folded THEN "diff"
                                 ELSE "commit")
              /\ remote'.page = remote.page + 1 /\ remote'.files = files
              /\ remote'.head = remote.head
          BY <4>1 DEF RemoteType
        <4>4. RemoteType'
          BY <3>1, <4>1, <4>2 DEF RemoteType, Fetching
        <4>5. QED BY <4>1, <4>3, <4>4
      <3>4. ASSUME remote.head = platform.head
            PROVE  /\ HasNext(remote.page) => remote.page + 1 <= PagesOf[remote.head]
                   /\ ~HasNext(remote.page) => remote.page = PagesOf[remote.head]
        BY <1>0, <3>3, <3>4 DEF HasNext, ReadInv
      <3>5. ASSUME remote.head = platform.head PROVE PagesRead(files, remote.head, remote.page)
        BY <1>0, <3>1, <3>2, <3>3, <3>5 DEF ReadInv
      <3>6. remote'.step \in {"pages", "diff", "commit"}
            /\ (remote'.step = "pages" <=> HasNext(remote.page))
        BY <3>3
      <3>7. remote.head <= platform.head
        BY <3>3 DEF ReadInv, Fetching
      <3> HIDE DEF RemoteInv
      <3>8. ReadInv'
        BY <1>0, <3>3, <3>4, <3>5, <3>6, <3>7 DEF ReadInv
      <3>9. QED BY <3>3, <3>8 DEF RemoteInv
    <2>3. QED BY <2>1, <2>2
  <1>6. ASSUME NEW answer \in Faults \cup {"ok", "garbled"}, ReadDiff(answer) PROVE RemoteInv'
    <2>1. CASE \E code \in Codes : Fail(code)
      BY <1>6, <2>1, FailedStep DEF ReadDiff
    <2>2. CASE /\ remote' = [remote EXCEPT !.step = "commit", !.files = WholeDiff(platform.head)]
               /\ remote.step = "diff" /\ UNCHANGED platform
      <3>1. /\ WholeDiff(platform.head) \in Seq(FileRecord)
            /\ PagesRead(WholeDiff(platform.head), platform.head, PagesOf[platform.head])
        BY <1>0, WholeDiffPages
      <3>2. RemoteType'
        BY <2>2, <3>1 DEF RemoteType, Fetching
      <3>3. /\ remote'.files = WholeDiff(platform.head) /\ remote'.step = "commit"
            /\ remote'.head = remote.head /\ platform' = platform
        BY <2>2 DEF RemoteType
      <3>4. QED BY <2>2, <3>1, <3>2, <3>3 DEF ReadInv, Fetching
    <2>3. QED BY <1>6, <2>1, <2>2, CodeType DEF ReadDiff
  <1>7. ASSUME NEW large \in BOOLEAN, NEW scan \in Scans, Commit(large, scan) PROVE RemoteInv'
    <2>1. CASE CommitFault(large, scan) # "none"
      BY <1>7, <2>1, FailedStep, CodeType DEF Commit
    <2>2. CASE CommitFault(large, scan) = "none"
      <3>1. remote.step = "commit" /\ remote' = [remote EXCEPT !.step = "committed"]
            /\ UNCHANGED platform /\ Whole(remote.files)
        BY <1>7, <2>2 DEF Commit, CommitFault
      <3>2. RemoteType' /\ remote'.step = "committed" /\ remote'.head = remote.head
            /\ remote'.files = remote.files
        BY <3>1 DEF RemoteType, Fetching
      <3>3. remote.head = platform.head => remote.files = WholeDiff(remote.head)
        BY <1>0, <3>1, WholePages DEF ReadInv
      <3>4. QED BY <3>1, <3>2, <3>3 DEF ReadInv, Fetching, WholeDiff
    <2>3. QED BY <2>1, <2>2
  <1>8. QED BY <1>1, <1>2, <1>3, <1>4, <1>5, <1>6, <1>7 DEF RemoteNext

-----------------------------------------------------------------------------
(* The theorems                                                            *)

\* The rest of the input path leaves the acquisition alone.
LEMMA PathSteps ==
  ASSUME [Next]_vars
  PROVE  [RemoteNext]_remoteVars
  BY DEF Next, vars, Acquire, AcquireRemote, Feed, FeedHeader, FeedFact, FeedMarkers,
         FeedHunkHeader, FeedContent, FeedNoNewline, FeedUnknown, EndOfInput, MakePlan

\* The inductive invariant holds in every reachable state of the input path.
THEOREM Invariance == Spec => []RemoteInv
  <1>1. ASSUME Init PROVE RemoteInv
    <2>1. "none" \in Codes /\ <<>> \in Seq(FileRecord) /\ 1 \in Versions
      BY DEF Codes, Versions
    <2>2. remote = Idle /\ platform = [head |-> 1, open |-> TRUE]
      BY <1>1 DEF Init, RemoteInit
    <2>3. RemoteType
      BY <2>1, <2>2 DEF RemoteType, Idle, Fetching
    <2>4. ReadInv
      BY <2>2 DEF ReadInv, Idle, Fetching
    <2>5. QED BY <2>3, <2>4 DEF RemoteInv
  <1>2. RemoteInv /\ [Next]_vars => RemoteInv'
    BY PathSteps, RemoteStep
  <1>3. QED BY <1>1, <1>2, PTL DEF Spec

\* For every number of versions and pages: what is committed under a head that
\* is still the head of the request is its whole diff, every page once and in
\* order, whichever of the modelled answers came on the way.
THEOREM AcquisitionIsWhole == Spec => []AcquiredIsWhole
  <1>1. RemoteInv => AcquiredIsWhole
    BY DEF RemoteInv, ReadInv, AcquiredIsWhole
  <1>2. QED BY Invariance, <1>1, PTL

HIDE PagesOfAssumption

-----------------------------------------------------------------------------
(* The inductive invariant of the parser                                   *)

LineType == [type : DOMAIN Sides, text : DOMAIN TextBytes, sequence : Nat, old : Nat, new : Nat]

HunkType == [oldStart : Nat, oldCount : Nat, newStart : Nat, newCount : Nat,
             lines : Seq(LineType)]

MaybePaths == Paths \cup {Null}

FileType == [old : MaybePaths, new : MaybePaths, type : DOMAIN TypeRank, hunks : Seq(HunkType)]

ValuesOf(n) == IF n = "header" THEN [old : Paths, new : Paths] ELSE FactValues[n]

AtMostOne(S) == \A x, y \in S : x = y

\* A fact is stated at most once.
FactsType ==
    {f \in [FactNames -> UNION {SUBSET ValuesOf(n) : n \in FactNames}] :
        \A n \in FactNames : f[n] \subseteq ValuesOf(n) /\ AtMostOne(f[n])}

FaultType == {"none", "malformed", "incomplete", "too_large"}

ParserType == [files : Seq(FileType), facts : FactsType, hunks : Seq(HunkType),
               hunk : {S \in SUBSET HunkType : AtMostOne(S)}, changed : Nat, sections : Nat,
               physical : Nat, fault : FaultType]

\* A hunk as far as it is read: its lines are numbered as they must be, a line
\* has no number on a side where it is not, and no side is more than full.
GoodHunk(h) ==
    /\ LocationsValid(h)
    /\ \A k \in DOMAIN h.lines :
          /\ k \notin OnSide(h, "old") => h.lines[k].old = Null
          /\ k \notin OnSide(h, "new") => h.lines[k].new = Null
    /\ Seen(h, "old") <= h.oldCount /\ Seen(h, "new") <= h.newCount
    /\ h.oldCount > 0 => h.oldStart > 0
    /\ h.newCount > 0 => h.newStart > 0

GoodHunks(hunks) == \A k \in DOMAIN hunks : GoodHunk(hunks[k]) /\ Complete(hunks[k])

\* The files of a change: each as the aggregate wants it, no two of one identity.
GoodFiles(files) ==
    /\ files \in Seq(FileType)
    /\ \A k \in DOMAIN files : FileValid(files[k]) /\ GoodHunks(files[k].hunks)
    /\ \A j, k \in DOMAIN files : j # k => FileId(files[j]) # FileId(files[k])

\* Changed lines of a hunk, of some hunks and of some files.
ChangedIn(h)        == OfType(h, "addition") + OfType(h, "deletion")
ChangedInAll(hunks) == Changed([hunks |-> hunks])
ChangedInFiles(fs)  == SumFunction([k \in DOMAIN fs |-> Changed(fs[k])])

\* What was counted is what the files, the hunks and the open hunk have.
CountsAgree(st) ==
    /\ st.changed <= MaxChangedLines
    /\ st.hunk = {} => st.changed = ChangedInFiles(st.files) + ChangedInAll(st.hunks)
    /\ \A h \in st.hunk :
          st.changed = ChangedInFiles(st.files) + ChangedInAll(st.hunks) + ChangedIn(h)
    /\ Len(st.files) + (IF InSection(st) THEN 1 ELSE 0) <= st.sections

ParserOk(st) ==
    /\ st \in ParserType
    /\ GoodFiles(st.files)
    /\ GoodHunks(st.hunks) /\ \A h \in st.hunk : GoodHunk(h)
    /\ ~InSection(st) => st.hunks = <<>> /\ st.hunk = {}
    /\ CountsAgree(st)

\* What the document has come to: a plan is one of the accepted change, and it
\* is refused only if it is not valid.
PathInv ==
    /\ dialect \in Dialects /\ started \in BOOLEAN
    /\ ParserOk(parser)
    /\ GoodFiles(change.files)
    /\ stage # "done" => plan = NoPlan /\ result \notin {"planned", "refused"}
    /\ \/ plan = NoPlan
       \/ \E capacity \in Capacities : plan = Plan(change.files, capacity)
    /\ result = "planned" => PlanValid(plan)
    /\ result = "refused" => ~PlanValid(plan)
    /\ result \in {"planned", "refused"} =>
          \E capacity \in Capacities : plan = Plan(change.files, capacity)

-----------------------------------------------------------------------------
(* Lines of a hunk                                                         *)

\* The sides that there are.
LEMMA SideFacts ==
  /\ DOMAIN Sides = {"context", "deletion", "addition"}
  /\ Sides["context"] = {"old", "new"} /\ Sides["deletion"] = {"old"} /\ Sides["addition"] = {"new"}
  BY DEF Sides

\* Lines on a side are finitely many places of the hunk.
LEMMA OnSideFinite ==
  ASSUME NEW h, h.lines \in Seq(LineType), NEW side
  PROVE  /\ OnSide(h, side) \in SUBSET (1 .. Len(h.lines))
         /\ IsFiniteSet(OnSide(h, side)) /\ Seen(h, side) \in Nat
         /\ \A k : IsFiniteSet({j \in OnSide(h, side) : j < k}) /\ Ahead(h, side, k) \in Nat
  <1> DEFINE n == Len(h.lines)
             S == OnSide(h, side)
  <1>1. n \in Nat /\ S \in SUBSET (1 .. n)
    BY DEF OnSide
  <1>2. IsFiniteSet(1 .. n)
    BY <1>1, FS_Interval
  <1> HIDE DEF n, S
  <1>3. \A T \in SUBSET (1 .. n) : IsFiniteSet(T) /\ Cardinality(T) \in Nat
    BY <1>2, FS_Subset, FS_CardinalityType
  <1>4. \A k : {j \in S : j < k} \in SUBSET (1 .. n)
    BY <1>1
  <1>5. QED BY <1>1, <1>3, <1>4 DEF n, S, Seen, Ahead

\* h with one more line.
Longer(h, l) == [h EXCEPT !.lines = Append(@, l)]

\* The new line is on the sides of its type, behind all others.
LEMMA OneMoreLine ==
  ASSUME NEW h \in HunkType, NEW l \in LineType, NEW side
  PROVE  LET g == Longer(h, l)
             n == Len(h.lines) + 1
         IN  /\ g \in HunkType /\ g.oldStart = h.oldStart /\ g.oldCount = h.oldCount
             /\ g.newStart = h.newStart /\ g.newCount = h.newCount
             /\ g.lines = Append(h.lines, l)
             /\ DOMAIN g.lines = 1 .. n /\ g.lines[n] = l
             /\ \A k \in 1 .. n - 1 : g.lines[k] = h.lines[k]
             /\ OnSide(g, side) = IF side \in Sides[l.type] THEN OnSide(h, side) \cup {n}
                                  ELSE OnSide(h, side)
             /\ Seen(g, side) = IF side \in Sides[l.type] THEN Seen(h, side) + 1
                                ELSE Seen(h, side)
             /\ \A k \in 1 .. n - 1 : Ahead(g, side, k) = Ahead(h, side, k)
             /\ side \in Sides[l.type] => Ahead(g, side, n) = Seen(h, side)
  <1> DEFINE g == Longer(h, l)
             n == Len(h.lines) + 1
  <1>1. h.lines \in Seq(LineType) /\ n \in Nat \ {0} /\ n - 1 = Len(h.lines)
    BY DEF HunkType
  <1>2. /\ Append(h.lines, l) \in Seq(LineType) /\ DOMAIN Append(h.lines, l) = 1 .. n
        /\ Append(h.lines, l)[n] = l
        /\ \A k \in 1 .. n - 1 : Append(h.lines, l)[k] = h.lines[k]
    BY <1>1
  <1>3. /\ g \in HunkType /\ g.oldStart = h.oldStart /\ g.oldCount = h.oldCount
        /\ g.newStart = h.newStart /\ g.newCount = h.newCount
        /\ g.lines = Append(h.lines, l)
    BY <1>2 DEF HunkType, Longer
  <1> HIDE DEF g
  <1>4. OnSide(h, side) \in SUBSET (1 .. n - 1) /\ IsFiniteSet(OnSide(h, side)) /\ n \notin OnSide(h, side)
    <2>1. OnSide(h, side) \in SUBSET (1 .. Len(h.lines)) /\ IsFiniteSet(OnSide(h, side))
      BY <1>1, OnSideFinite
    <2>2. QED BY <1>1, <2>1
  <1>5. OnSide(g, side) = IF side \in Sides[l.type] THEN OnSide(h, side) \cup {n} ELSE OnSide(h, side)
    <2>1. OnSide(g, side) = {k \in 1 .. n : side \in Sides[g.lines[k].type]}
      BY <1>2, <1>3 DEF OnSide
    <2>2. OnSide(h, side) = {k \in 1 .. n - 1 : side \in Sides[h.lines[k].type]}
      BY <1>1 DEF OnSide
    <2>3. \A k \in 1 .. n : k = n \/ k \in 1 .. n - 1
      BY <1>1
    <2>4. 1 .. n - 1 \subseteq 1 .. n /\ n \in 1 .. n
      BY <1>1
    <2> HIDE DEF n
    <2>5. QED BY <1>2, <1>3, <2>1, <2>2, <2>3, <2>4
  <1>6. Seen(g, side) = IF side \in Sides[l.type] THEN Seen(h, side) + 1 ELSE Seen(h, side)
    <2>1. n \notin OnSide(h, side) => Cardinality(OnSide(h, side) \cup {n}) = Cardinality(OnSide(h, side)) + 1
      BY <1>4, FS_AddElement
    <2>2. QED BY <1>4, <1>5, <2>1 DEF Seen
  <1>7. ASSUME NEW k \in 1 .. n - 1 PROVE Ahead(g, side, k) = Ahead(h, side, k)
    <2>1. ~(n < k)
      BY <1>1
    <2>2. {j \in OnSide(g, side) : j < k} = {j \in OnSide(h, side) : j < k}
      BY <1>5, <2>1
    <2>3. QED BY <2>2 DEF Ahead
  <1>8. ASSUME side \in Sides[l.type] PROVE Ahead(g, side, n) = Seen(h, side)
    <2>1. ~(n < n) /\ \A j \in 1 .. n - 1 : j < n
      BY <1>1
    <2>2. {j \in OnSide(g, side) : j < n} = OnSide(h, side)
      BY <1>4, <1>5, <1>8, <2>1
    <2>3. QED BY <2>2 DEF Ahead, Seen
  <1>9. QED BY <1>2, <1>3, <1>5, <1>6, <1>7, <1>8 DEF g

\* What the types of a hunk's fields are.
LEMMA HunkFields ==
  ASSUME NEW h \in HunkType
  PROVE  /\ h.oldStart \in Nat /\ h.oldCount \in Nat /\ h.newStart \in Nat /\ h.newCount \in Nat
         /\ h.lines \in Seq(LineType) /\ DOMAIN h.lines = 1 .. Len(h.lines) /\ Len(h.lines) \in Nat
         /\ \A k \in DOMAIN h.lines : h.lines[k] \in LineType
  BY DEF HunkType

\* The line that Located makes is a line, on the sides of its type.
LEMMA LocatedLine ==
  ASSUME NEW h \in HunkType, NEW type \in DOMAIN Sides, NEW text \in DOMAIN TextBytes
  PROVE  LET l == Located(h, type, text)
         IN  /\ l \in LineType /\ l.type = type /\ l.sequence = Len(h.lines) + 1
             /\ l.old = IF "old" \in Sides[type] THEN h.oldStart + Seen(h, "old") ELSE Null
             /\ l.new = IF "new" \in Sides[type] THEN h.newStart + Seen(h, "new") ELSE Null
  <1>1. /\ h.oldStart \in Nat /\ h.newStart \in Nat /\ Len(h.lines) \in Nat
        /\ Seen(h, "old") \in Nat /\ Seen(h, "new") \in Nat
    BY HunkFields, OnSideFinite
  <1>2. QED BY <1>1 DEF Located, LineType, Null

\* A located line keeps a hunk good while there is room for it.
LEMMA LineKeepsHunk ==
  ASSUME NEW h \in HunkType, GoodHunk(h), NEW type \in DOMAIN Sides, NEW text \in DOMAIN TextBytes,
         "old" \in Sides[type] => Seen(h, "old") < h.oldCount,
         "new" \in Sides[type] => Seen(h, "new") < h.newCount
  PROVE  GoodHunk(Longer(h, Located(h, type, text)))
  <1> DEFINE l == Located(h, type, text)
             g == Longer(h, l)
             n == Len(h.lines) + 1
  <1>1. /\ l \in LineType /\ l.type = type /\ l.sequence = n
        /\ l.old = IF "old" \in Sides[type] THEN h.oldStart + Seen(h, "old") ELSE Null
        /\ l.new = IF "new" \in Sides[type] THEN h.newStart + Seen(h, "new") ELSE Null
    BY LocatedLine
  <1> HIDE DEF l
  <1>2. /\ g.oldStart = h.oldStart /\ g.oldCount = h.oldCount
        /\ g.newStart = h.newStart /\ g.newCount = h.newCount
        /\ DOMAIN g.lines = 1 .. n /\ g.lines[n] = l
        /\ \A k \in 1 .. n - 1 : g.lines[k] = h.lines[k]
    BY <1>1, OneMoreLine
  <1>3. \A side : /\ OnSide(g, side) = IF side \in Sides[type] THEN OnSide(h, side) \cup {n} ELSE OnSide(h, side)
                  /\ Seen(g, side) = IF side \in Sides[type] THEN Seen(h, side) + 1 ELSE Seen(h, side)
                  /\ \A k \in 1 .. n - 1 : Ahead(g, side, k) = Ahead(h, side, k)
                  /\ side \in Sides[type] => Ahead(g, side, n) = Seen(h, side)
    BY <1>1, OneMoreLine
  <1>4. /\ DOMAIN h.lines = 1 .. n - 1 /\ n \in Nat \ {0}
        /\ h.oldStart \in Nat /\ h.oldCount \in Nat /\ h.newStart \in Nat /\ h.newCount \in Nat
    <2>1. Len(h.lines) \in Nat /\ n - 1 = Len(h.lines)
      BY HunkFields
    <2>2. QED BY <2>1, HunkFields
  <1>5. \A side : /\ OnSide(h, side) \in SUBSET (1 .. n - 1) /\ Seen(h, side) \in Nat
    <2>1. n - 1 = Len(h.lines) /\ h.lines \in Seq(LineType)
      BY HunkFields
    <2>2. QED BY <2>1, OnSideFinite
  <1>6. /\ \A k \in 1 .. n - 1 : h.lines[k].sequence = k
        /\ \A k \in OnSide(h, "old") : h.lines[k].old = h.oldStart + Ahead(h, "old", k)
        /\ \A k \in OnSide(h, "new") : h.lines[k].new = h.newStart + Ahead(h, "new", k)
        /\ \A k \in 1 .. n - 1 : /\ k \notin OnSide(h, "old") => h.lines[k].old = Null
                                 /\ k \notin OnSide(h, "new") => h.lines[k].new = Null
        /\ Seen(h, "old") <= h.oldCount /\ Seen(h, "new") <= h.newCount
        /\ h.oldCount > 0 => h.oldStart > 0
        /\ h.newCount > 0 => h.newStart > 0
    BY <1>4 DEF GoodHunk, LocationsValid
  <1> HIDE DEF g, n
  <1>7. \A k \in 1 .. n : k = n \/ k \in 1 .. n - 1
    BY <1>4
  <1>8. \A k \in DOMAIN g.lines : g.lines[k].sequence = k
    BY <1>1, <1>2, <1>6, <1>7
  <1>9. \A k \in OnSide(g, "old") : g.lines[k].old = g.oldStart + Ahead(g, "old", k)
    <2> SUFFICES ASSUME NEW k \in OnSide(g, "old")
                 PROVE  g.lines[k].old = h.oldStart + Ahead(g, "old", k)
      BY <1>2
    <2>1. CASE k \in OnSide(h, "old")
      BY <1>2, <1>3, <1>5, <1>6, <2>1
    <2>2. CASE k \notin OnSide(h, "old")
      <3>1. k = n /\ "old" \in Sides[type]
        BY <1>3, <2>2
      <3>2. QED BY <1>1, <1>2, <1>3, <3>1
    <2>3. QED BY <2>1, <2>2
  <1>10. \A k \in OnSide(g, "new") : g.lines[k].new = g.newStart + Ahead(g, "new", k)
    <2> SUFFICES ASSUME NEW k \in OnSide(g, "new")
                 PROVE  g.lines[k].new = h.newStart + Ahead(g, "new", k)
      BY <1>2
    <2>1. CASE k \in OnSide(h, "new")
      BY <1>2, <1>3, <1>5, <1>6, <2>1
    <2>2. CASE k \notin OnSide(h, "new")
      <3>1. k = n /\ "new" \in Sides[type]
        BY <1>3, <2>2
      <3>2. QED BY <1>1, <1>2, <1>3, <3>1
    <2>3. QED BY <2>1, <2>2
  <1>11. \A k \in DOMAIN g.lines : /\ k \notin OnSide(g, "old") => g.lines[k].old = Null
                                   /\ k \notin OnSide(g, "new") => g.lines[k].new = Null
    <2> SUFFICES ASSUME NEW k \in 1 .. n
                 PROVE  /\ k \notin OnSide(g, "old") => g.lines[k].old = Null
                        /\ k \notin OnSide(g, "new") => g.lines[k].new = Null
      BY <1>2
    <2>1. CASE k = n
      BY <1>1, <1>2, <1>3, <2>1
    <2>2. CASE k \in 1 .. n - 1
      BY <1>2, <1>3, <1>6, <2>2
    <2>3. QED BY <1>7, <2>1, <2>2
  <1>12. /\ Seen(g, "old") <= g.oldCount /\ Seen(g, "new") <= g.newCount
         /\ g.oldCount > 0 => g.oldStart > 0
         /\ g.newCount > 0 => g.newStart > 0
    <2>1. Seen(g, "old") <= h.oldCount
      BY <1>3, <1>4, <1>5, <1>6
    <2>2. Seen(g, "new") <= h.newCount
      BY <1>3, <1>4, <1>5, <1>6
    <2>3. QED BY <1>2, <1>6, <2>1, <2>2
  <1>13. GoodHunk(g)
    BY <1>8, <1>9, <1>10, <1>11, <1>12 DEF GoodHunk, LocationsValid
  <1>14. QED BY <1>13 DEF g, l

\* A hunk without lines is good if its sides are.
LEMMA EmptyHunk ==
  ASSUME NEW a \in Nat, NEW b \in Nat, NEW c \in Nat, NEW d \in Nat,
         b > 0 => a > 0, d > 0 => c > 0
  PROVE  LET h == [oldStart |-> a, oldCount |-> b, newStart |-> c, newCount |-> d, lines |-> <<>>]
         IN  h \in HunkType /\ GoodHunk(h) /\ ChangedIn(h) = 0
  <1> DEFINE h == [oldStart |-> a, oldCount |-> b, newStart |-> c, newCount |-> d, lines |-> <<>>]
  <1>1. <<>> \in Seq(LineType)
    OBVIOUS
  <1>2. /\ h \in HunkType /\ DOMAIN h.lines = {}
        /\ h.oldStart = a /\ h.oldCount = b /\ h.newStart = c /\ h.newCount = d
    BY <1>1 DEF HunkType
  <1> HIDE DEF h
  <1>3. \A side : OnSide(h, side) = {}
    BY <1>2 DEF OnSide
  <1>4. \A t : {k \in DOMAIN h.lines : h.lines[k].type = t} = {}
    BY <1>2
  <1>5. \A side : Seen(h, side) = 0
    BY <1>3, FS_EmptySet DEF Seen
  <1>6. \A t : OfType(h, t) = 0
    BY <1>4, FS_EmptySet DEF OfType
  <1>7. GoodHunk(h) /\ ChangedIn(h) = 0
    BY <1>2, <1>3, <1>5, <1>6 DEF GoodHunk, LocationsValid, ChangedIn
  <1>8. QED BY <1>2, <1>7 DEF h

\* Lines of a type are counted.
LEMMA OfTypeCounts ==
  ASSUME NEW h \in HunkType
  PROVE  /\ \A t : OfType(h, t) \in Nat
         /\ ChangedIn(h) \in Nat
         /\ \A l \in LineType :
               /\ \A t : OfType(Longer(h, l), t) = OfType(h, t) + IF l.type = t THEN 1 ELSE 0
               /\ ChangedIn(Longer(h, l)) = ChangedIn(h) + IF l.type = "context" THEN 0 ELSE 1
  <1> DEFINE Of(t) == {k \in DOMAIN h.lines : h.lines[k].type = t}
             n == Len(h.lines) + 1
  <1>1. n \in Nat \ {0} /\ DOMAIN h.lines = 1 .. n - 1 /\ n - 1 \in Nat
    <2>1. Len(h.lines) \in Nat /\ n - 1 = Len(h.lines)
      BY HunkFields
    <2>2. QED BY <2>1, HunkFields
  <1>2. IsFiniteSet(1 .. n - 1)
    BY <1>1, FS_Interval
  <1>3. \A t : Of(t) \in SUBSET (1 .. n - 1)
    BY <1>1
  <1>4. \A t : IsFiniteSet(Of(t)) /\ Cardinality(Of(t)) \in Nat
    <2> HIDE DEF Of
    <2>1. QED BY <1>2, <1>3, FS_Subset, FS_CardinalityType
  <1>5. \A t : OfType(h, t) \in Nat
    BY <1>4 DEF OfType
  <1>6. ChangedIn(h) \in Nat
    BY <1>5 DEF ChangedIn
  <1>7. ASSUME NEW l \in LineType, NEW t
        PROVE  OfType(Longer(h, l), t) = OfType(h, t) + IF l.type = t THEN 1 ELSE 0
    <2> DEFINE g == Longer(h, l)
    <2>1. /\ DOMAIN g.lines = 1 .. n /\ g.lines[n] = l
          /\ \A k \in 1 .. n - 1 : g.lines[k] = h.lines[k]
      BY OneMoreLine
    <2> HIDE DEF g
    <2>2. n \notin Of(t)
      BY <1>1
    <2>3. {k \in DOMAIN g.lines : g.lines[k].type = t} = IF l.type = t THEN Of(t) \cup {n} ELSE Of(t)
      <3>1. \A k \in 1 .. n : k = n \/ k \in 1 .. n - 1
        BY <1>1
      <3>2. 1 .. n - 1 \subseteq 1 .. n /\ n \in 1 .. n
        BY <1>1
      <3>3. Of(t) = {k \in 1 .. n - 1 : h.lines[k].type = t}
        BY <1>1
      <3> HIDE DEF n, Of
      <3>4. QED BY <2>1, <3>1, <3>2, <3>3
    <2>4. OfType(g, t) = Cardinality(IF l.type = t THEN Of(t) \cup {n} ELSE Of(t))
      BY <2>3 DEF OfType
    <2>5. Cardinality(Of(t) \cup {n}) = Cardinality(Of(t)) + 1
      <3> HIDE DEF Of
      <3>1. QED BY <1>4, <2>2, FS_AddElement
    <2>6. OfType(h, t) = Cardinality(Of(t))
      BY DEF OfType
    <2> HIDE DEF Of
    <2>7. QED BY <1>4, <2>4, <2>5, <2>6 DEF g
  <1>8. ASSUME NEW l \in LineType
        PROVE  ChangedIn(Longer(h, l)) = ChangedIn(h) + IF l.type = "context" THEN 0 ELSE 1
    <2>1. l.type \in {"context", "deletion", "addition"}
      BY SideFacts DEF LineType
    <2>2. /\ OfType(Longer(h, l), "addition") = OfType(h, "addition") + IF l.type = "addition" THEN 1 ELSE 0
          /\ OfType(Longer(h, l), "deletion") = OfType(h, "deletion") + IF l.type = "deletion" THEN 1 ELSE 0
      BY <1>7
    <2>3. OfType(h, "addition") \in Nat /\ OfType(h, "deletion") \in Nat
      BY <1>5
    <2>4. QED BY <2>1, <2>2, <2>3 DEF ChangedIn
  <1>9. QED BY <1>5, <1>6, <1>7, <1>8
-----------------------------------------------------------------------------
(* Sums of changed lines                                                   *)

\* The changed lines of some hunks, hunk by hunk.
LEMMA HunksCounted ==
  ASSUME NEW hunks \in Seq(HunkType)
  PROVE  /\ ChangedInAll(hunks) \in Nat
         /\ hunks = <<>> => ChangedInAll(hunks) = 0
         /\ \A h \in HunkType :
               ChangedInAll(Append(hunks, h)) = ChangedInAll(hunks) + ChangedIn(h)
  <1> DEFINE n == Len(hunks)
             of(t) == [k \in DOMAIN hunks |-> OfType(hunks[k], t)]
             sum(t) == SumFunction(of(t))
  <1>1. n \in Nat /\ DOMAIN hunks = 1 .. n /\ \A k \in 1 .. n : hunks[k] \in HunkType
    OBVIOUS
  <1>2. \A t : \A k \in 1 .. n : OfType(hunks[k], t) \in Nat
    BY <1>1, OfTypeCounts
  <1>3. \A t : of(t) \in [1 .. n -> Nat] /\ of(t) \in [1 .. n -> Int]
    BY <1>1, <1>2
  <1>4. ChangedInAll(hunks) = sum("addition") + sum("deletion")
    BY DEF ChangedInAll, Changed, CountType
  <1>5. \A t : sum(t) \in Nat /\ (n = 0 => sum(t) = 0)
    <2>1. IsFiniteSet(1 .. n) /\ (n = 0 => 1 .. n = {})
      BY <1>1, FS_Interval
    <2> HIDE DEF of, n
    <2>2. QED BY <1>3, <2>1, SumType, SumIsNatural
  <1>6. ASSUME NEW h \in HunkType
        PROVE  ChangedInAll(Append(hunks, h)) = ChangedInAll(hunks) + ChangedIn(h)
    <2> DEFINE more == Append(hunks, h)
               mof(t) == [k \in DOMAIN more |-> OfType(more[k], t)]
    <2>1. /\ DOMAIN more = 1 .. n + 1 /\ more[n + 1] = h
          /\ \A k \in 1 .. n : more[k] = hunks[k]
      BY <1>1
    <2> HIDE DEF more
    <2>2. \A t : OfType(h, t) \in Nat
      BY OfTypeCounts
    <2>3. \A t : /\ mof(t) \in [1 .. n + 1 -> Int] /\ mof(t)[n + 1] = OfType(h, t)
                 /\ \A k \in 1 .. n : mof(t)[k] = of(t)[k]
      <3>1. \A k \in 1 .. n + 1 : k = n + 1 \/ k \in 1 .. n
        BY <1>1
      <3>2. n + 1 \in 1 .. n + 1 /\ 1 .. n \subseteq 1 .. n + 1
        BY <1>1
      <3> HIDE DEF n
      <3>3. \A t : \A k \in 1 .. n + 1 : OfType(more[k], t) \in Int
        BY <1>2, <2>1, <2>2, <3>1
      <3>4. QED BY <1>1, <2>1, <3>2, <3>3
    <2>4. \A t : SumFunction(mof(t)) = sum(t) + OfType(h, t)
      <3> TAKE t
      <3> DEFINE a == of(t)
                 b == mof(t)
      <3>1. /\ a \in [1 .. n -> Int] /\ b \in [1 .. n + 1 -> Int] /\ b[n + 1] = OfType(h, t)
            /\ \A k \in 1 .. n : b[k] = a[k]
        <4> HIDE DEF mof, of, n
        <4>1. QED BY <1>3, <2>3
      <3> HIDE DEF a, b, n
      <3>2. SumFunction(b) = SumFunction(a) + b[n + 1]
        BY <1>1, <3>1, SumAppend
      <3>3. QED BY <3>1, <3>2 DEF a, b
    <2>5. ChangedInAll(more) = SumFunction(mof("addition")) + SumFunction(mof("deletion"))
      BY DEF ChangedInAll, Changed, CountType
    <2> HIDE DEF mof, of, sum
    <2>6. QED BY <1>4, <1>5, <2>2, <2>4, <2>5 DEF more, ChangedIn
  <1>7. QED
    <2> HIDE DEF sum, n
    <2>1. ChangedInAll(hunks) \in Nat
      BY <1>4, <1>5
    <2>2. hunks = <<>> => n = 0
      BY DEF n
    <2>3. QED BY <1>4, <1>5, <1>6, <2>1, <2>2

\* The changed lines of a file are those of its hunks.
LEMMA FileCounted ==
  ASSUME NEW c PROVE Changed(c) = ChangedInAll(c.hunks)
  BY DEF ChangedInAll, Changed, CountType

\* The changed lines of some files, file by file.
LEMMA FilesCounted ==
  ASSUME NEW files \in Seq(FileType)
  PROVE  /\ ChangedInFiles(files) \in Nat
         /\ files = <<>> => ChangedInFiles(files) = 0
         /\ \A c \in FileType :
               ChangedInFiles(Append(files, c)) = ChangedInFiles(files) + ChangedInAll(c.hunks)
  <1> DEFINE n == Len(files)
             of == [k \in DOMAIN files |-> Changed(files[k])]
  <1>1. n \in Nat /\ DOMAIN files = 1 .. n /\ \A k \in 1 .. n : files[k] \in FileType
    OBVIOUS
  <1>2. \A c \in FileType : Changed(c) \in Nat
    BY FileCounted, HunksCounted DEF FileType
  <1>3. of \in [1 .. n -> Nat] /\ of \in [1 .. n -> Int]
    BY <1>1, <1>2
  <1>4. ChangedInFiles(files) = SumFunction(of)
    BY DEF ChangedInFiles
  <1>5. SumFunction(of) \in Nat /\ (n = 0 => SumFunction(of) = 0)
    <2>1. IsFiniteSet(1 .. n) /\ (n = 0 => 1 .. n = {})
      BY <1>1, FS_Interval
    <2> HIDE DEF of, n
    <2>2. QED BY <1>3, <2>1, SumType, SumIsNatural
  <1>6. ASSUME NEW c \in FileType
        PROVE  ChangedInFiles(Append(files, c)) = ChangedInFiles(files) + ChangedInAll(c.hunks)
    <2> DEFINE more == Append(files, c)
               mof == [k \in DOMAIN more |-> Changed(more[k])]
    <2>1. /\ DOMAIN more = 1 .. n + 1 /\ more[n + 1] = c
          /\ \A k \in 1 .. n : more[k] = files[k]
      BY <1>1
    <2> HIDE DEF more
    <2>2. /\ mof \in [1 .. n + 1 -> Int] /\ mof[n + 1] = Changed(c)
          /\ \A k \in 1 .. n : mof[k] = of[k]
      <3>1. \A k \in 1 .. n + 1 : k = n + 1 \/ k \in 1 .. n
        BY <1>1
      <3>2. n + 1 \in 1 .. n + 1 /\ 1 .. n \subseteq 1 .. n + 1
        BY <1>1
      <3> HIDE DEF n
      <3>3. \A k \in 1 .. n + 1 : Changed(more[k]) \in Int
        BY <1>1, <1>2, <2>1, <3>1
      <3>4. QED BY <1>1, <2>1, <3>2, <3>3
    <2>3. SumFunction(mof) = SumFunction(of) + Changed(c)
      <3> HIDE DEF mof, of, n
      <3>1. QED BY <1>1, <1>3, <2>2, SumAppend
    <2>4. ChangedInFiles(more) = SumFunction(mof)
      BY DEF ChangedInFiles
    <2> HIDE DEF mof, of
    <2>5. QED BY <1>4, <2>3, <2>4, FileCounted DEF more
  <1>7. QED
    <2> HIDE DEF of, n
    <2>1. files = <<>> => n = 0
      BY DEF n
    <2>2. QED BY <1>4, <1>5, <1>6, <2>1

-----------------------------------------------------------------------------
(* The facts and the file of a section                                     *)

\* What each fact says.
LEMMA FactKinds ==
  ASSUME NEW f \in FactsType
  PROVE  /\ f.header \subseteq [old : Paths, new : Paths]
         /\ f.marker \subseteq [old : MaybePaths, new : MaybePaths]
         /\ f.binary \subseteq [old : MaybePaths, new : MaybePaths]
         /\ f.rename_old \subseteq Paths /\ f.rename_new \subseteq Paths
         /\ f.new_file \subseteq {TRUE} /\ f.deleted_file \subseteq {TRUE}
         /\ f.old_mode \subseteq STRING /\ f.new_mode \subseteq STRING
         /\ f.index \subseteq [old : STRING, new : STRING, mode : BOOLEAN]
         /\ f.similarity \subseteq [kind : {"similarity", "dissimilarity"}, whole : BOOLEAN]
         /\ \A n \in FactNames : AtMostOne(f[n])
         /\ DOMAIN f = FactNames
  <1>1. \A n \in FactNames : f[n] \subseteq ValuesOf(n) /\ AtMostOne(f[n])
    BY DEF FactsType
  <1>2. DOMAIN f = FactNames
    BY DEF FactsType
  <1>3. f.header \subseteq ValuesOf("header")
    BY <1>1 DEF FactNames
  <1>4. \A n \in FactNames \ {"header"} : f[n] \subseteq FactValues[n]
    BY <1>1 DEF ValuesOf
  <1>5. /\ f.marker \subseteq FactValues.marker /\ f.binary \subseteq FactValues.binary
        /\ f.rename_old \subseteq FactValues.rename_old /\ f.rename_new \subseteq FactValues.rename_new
        /\ f.new_file \subseteq FactValues.new_file /\ f.deleted_file \subseteq FactValues.deleted_file
        /\ f.old_mode \subseteq FactValues.old_mode /\ f.new_mode \subseteq FactValues.new_mode
        /\ f.index \subseteq FactValues.index /\ f.similarity \subseteq FactValues.similarity
    BY <1>4 DEF FactNames
  <1>6. f.header \subseteq [old : Paths, new : Paths]
    BY <1>3 DEF ValuesOf
  <1>7. /\ FactValues.marker = [old : MaybePaths, new : MaybePaths]
        /\ FactValues.binary = [old : MaybePaths, new : MaybePaths]
        /\ FactValues.rename_old = Paths /\ FactValues.rename_new = Paths
        /\ FactValues.new_file = {TRUE} /\ FactValues.deleted_file = {TRUE}
        /\ FactValues.old_mode = STRING /\ FactValues.new_mode = STRING
        /\ FactValues.index = [old : STRING, new : STRING, mode : BOOLEAN]
        /\ FactValues.similarity = [kind : {"similarity", "dissimilarity"}, whole : BOOLEAN]
    BY DEF FactValues, MaybePaths
  <1>8. QED BY <1>1, <1>2, <1>5, <1>6, <1>7

\* One fact more, or one less.
LEMMA FactChange ==
  ASSUME NEW f \in FactsType, NEW n \in FactNames, NEW S \in SUBSET ValuesOf(n), AtMostOne(S)
  PROVE  [f EXCEPT ![n] = S] \in FactsType
  BY DEF FactsType

\* Nothing is stated at the start of a section.
LEMMA NoFactsType == NoFacts \in FactsType /\ NoFacts.header = {}
  BY DEF FactsType, NoFacts, FactNames, AtMostOne

\* The file of a section is one.
LEMMA FileOfType ==
  ASSUME NEW f \in FactsType, Stated(f, "header"), NEW hunks \in Seq(HunkType)
  PROVE  FileOf(f, hunks) \in FileType /\ FileOf(f, hunks).hunks = hunks
  <1> DEFINE pair == IF Stated(f, "binary") THEN Value(f, "binary")
                     ELSE IF Stated(f, "marker") THEN Value(f, "marker")
                     ELSE Value(f, "header")
             old == IF Stated(f, "new_file") THEN Null ELSE pair.old
             new == IF Stated(f, "deleted_file") THEN Null ELSE pair.new
  <1>1. \A n : Stated(f, n) => Value(f, n) \in f[n]
    BY DEF Stated, Value
  <1>2. pair \in [old : MaybePaths, new : MaybePaths]
    <2>1. Value(f, "header") \in [old : Paths, new : Paths]
      BY <1>1, FactKinds
    <2>2. Value(f, "header") \in [old : MaybePaths, new : MaybePaths]
      BY <2>1 DEF MaybePaths
    <2>3. QED BY <1>1, <2>2, FactKinds
  <1>3. old \in MaybePaths /\ new \in MaybePaths
    BY <1>2 DEF MaybePaths
  <1>4. FileOf(f, hunks) = [old |-> old, new |-> new, type |-> ChangeType(f, old, new), hunks |-> hunks]
    BY DEF FileOf
  <1> HIDE DEF old, new
  <1>5. ChangeType(f, old, new) \in {"binary", "added", "deleted", "renamed", "modified"}
    BY DEF ChangeType
  <1>6. DOMAIN TypeRank = {"binary", "added", "deleted", "renamed", "modified"}
    BY DEF TypeRank
  <1>7. QED BY <1>3, <1>4, <1>5, <1>6 DEF FileType
-----------------------------------------------------------------------------
(* The steps of the parser                                                 *)

\* The fields of a parser.
LEMMA ParserFields ==
  ASSUME NEW st \in ParserType
  PROVE  /\ st.files \in Seq(FileType) /\ st.facts \in FactsType /\ st.hunks \in Seq(HunkType)
         /\ st.hunk \subseteq HunkType /\ AtMostOne(st.hunk)
         /\ st.changed \in Nat /\ st.sections \in Nat /\ st.physical \in Nat
         /\ st.fault \in FaultType
  BY DEF ParserType

\* Nothing read, but for what is counted and a fault.
LEMMA NothingRead ==
  ASSUME NEW st \in ParserType, st.files = <<>>, st.facts = NoFacts, st.hunks = <<>>,
         st.hunk = {}, st.changed = 0
  PROVE  ParserOk(st)
  <1>1. <<>> \in Seq(FileType) /\ <<>> \in Seq(HunkType) /\ Len(<<>>) = 0 /\ DOMAIN <<>> = {}
    OBVIOUS
  <1>2. ChangedInFiles(<<>>) = 0 /\ ChangedInAll(<<>>) = 0
    BY <1>1, FilesCounted, HunksCounted
  <1>5. ~InSection(st)
    BY NoFactsType DEF InSection, Stated
  <1>6. GoodFiles(st.files) /\ GoodHunks(st.hunks)
    BY <1>1 DEF GoodFiles, GoodHunks
  <1>7. 0 <= MaxChangedLines /\ 0 <= st.sections
    BY InputAssumption, ParserFields
  <1>8. CountsAgree(st)
    BY <1>1, <1>2, <1>5, <1>7 DEF CountsAgree
  <1>9. QED BY <1>1, <1>5, <1>6, <1>8 DEF ParserOk

\* The parser begins as it must.
LEMMA StartOk == ParserOk(Start) /\ Start \in ParserType
  <1>1. <<>> \in Seq(FileType) /\ <<>> \in Seq(HunkType) /\ {} \in SUBSET HunkType /\ AtMostOne({})
    BY DEF AtMostOne
  <1>2. "none" \in FaultType
    BY DEF FaultType
  <1>3. Start \in ParserType
    BY <1>1, <1>2, NoFactsType DEF ParserType, Start
  <1>4. QED BY <1>3, NothingRead DEF Start

\* A parser that fails keeps what it counted.
LEMMA FailsOk ==
  ASSUME NEW st \in ParserType, NEW code \in FaultType
  PROVE  /\ ParserOk(Fails(st, code)) /\ Fails(st, code).fault = code
         /\ Fails(st, code).sections = st.sections /\ Fails(st, code).physical = st.physical
  <1>1. /\ st.sections \in Nat /\ st.physical \in Nat
    BY ParserFields
  <1>2. /\ Fails(st, code) \in ParserType /\ Fails(st, code).fault = code
        /\ Fails(st, code).sections = st.sections /\ Fails(st, code).physical = st.physical
        /\ Fails(st, code).files = Start.files /\ Fails(st, code).facts = Start.facts
        /\ Fails(st, code).hunks = Start.hunks /\ Fails(st, code).hunk = Start.hunk
        /\ Fails(st, code).changed = Start.changed
    BY <1>1, StartOk DEF Fails, ParserType
  <1>3. ParserOk(Fails(st, code))
    BY <1>2, NothingRead DEF Start
  <1>4. QED BY <1>2, <1>3

\* What only counts sections and lines keeps the parser.
LEMMA CountsOk ==
  ASSUME NEW st, ParserOk(st), NEW e \in ParserType,
         e.files = st.files, e.facts = st.facts, e.hunks = st.hunks,
         e.hunk = st.hunk, e.changed = st.changed, st.sections <= e.sections
  PROVE  ParserOk(e)
  <1>1. st \in ParserType /\ st.sections \in Nat /\ e.sections \in Nat /\ Len(st.files) \in Nat
    BY ParserFields DEF ParserOk
  <1>4. InSection(e) <=> InSection(st)
    BY DEF InSection
  <1>5. CountsAgree(e)
    <2>2. Len(st.files) + (IF InSection(st) THEN 1 ELSE 0) <= st.sections
      BY DEF ParserOk, CountsAgree
    <2>3. Len(e.files) + (IF InSection(e) THEN 1 ELSE 0) <= e.sections
      <3>1. CASE InSection(st)
        BY <1>1, <1>4, <2>2, <3>1
      <3>2. CASE ~InSection(st)
        <4>1. Len(st.files) + 0 <= st.sections /\ ~InSection(e)
          BY <1>4, <2>2, <3>2
        <4>2. Len(e.files) + 0 <= e.sections
          BY <1>1, <4>1
        <4>3. QED BY <4>1, <4>2
      <3>3. QED BY <3>1, <3>2
    <2>4. QED BY <1>4, <2>3 DEF ParserOk, CountsAgree
  <1>6. QED BY <1>4, <1>5 DEF ParserOk

\* Lines that are counted change nothing else.
LEMMA CountedOk ==
  ASSUME NEW st, ParserOk(st), NEW n \in Nat
  PROVE  ParserOk(Counted(st, n))
  <1> DEFINE e == Counted(st, n)
  <1>1. st \in ParserType /\ st.sections \in Nat /\ st.physical \in Nat
    BY ParserFields DEF ParserOk
  <1>2. /\ e \in ParserType /\ e.files = st.files /\ e.facts = st.facts /\ e.hunks = st.hunks
        /\ e.hunk = st.hunk /\ e.changed = st.changed /\ e.sections = st.sections
    BY <1>1 DEF Counted, ParserType
  <1> HIDE DEF e
  <1>3. ParserOk(e)
    BY <1>1, <1>2, CountsOk
  <1>4. QED BY <1>3 DEF e

\* The end of a section: its file is one more of the files.
LEMMA EndSectionOk ==
  ASSUME NEW st, ParserOk(st)
  PROVE  /\ ParserOk(EndSection(st)) /\ EndSection(st).sections = st.sections
         /\ (EndSection(st).fault = "none" /\ InSection(st)) =>
               EndSection(st).facts = NoFacts
         /\ EndSection(st).fault = "none" => EndSection(st).hunks = <<>> /\ EndSection(st).hunk = {}
  <1> DEFINE f == st.facts
             c == FileOf(f, st.hunks)
             e == [st EXCEPT !.files = Append(@, c), !.facts = NoFacts, !.hunks = <<>>]
             fine == /\ st.hunks = <<>> => HeaderAgrees(f)
                     /\ Consistent(f, st.hunks)
                     /\ FileValid(c)
                     /\ \A k \in DOMAIN st.files : FileId(st.files[k]) # FileId(c)
  <1>1. st \in ParserType
    BY DEF ParserOk
  <1>2. CASE st.fault # "none" \/ ~InSection(st)
    BY <1>2 DEF EndSection, ParserOk
  <1>3. "incomplete" \in FaultType /\ "malformed" \in FaultType
    BY DEF FaultType
  <1>4. CASE st.fault = "none" /\ InSection(st) /\ st.hunk # {}
    <2>1. EndSection(st) = Fails(st, "incomplete")
      BY <1>4 DEF EndSection
    <2>2. QED BY <1>1, <1>3, <2>1, FailsOk
  <1>5. CASE st.fault = "none" /\ InSection(st) /\ st.hunk = {} /\ ~fine
    <2>1. EndSection(st) = Fails(st, "malformed")
      BY <1>5 DEF EndSection
    <2>2. QED BY <1>1, <1>3, <2>1, FailsOk
  <1>6. CASE st.fault = "none" /\ InSection(st) /\ st.hunk = {} /\ fine
    <2>1. EndSection(st) = e
      BY <1>6 DEF EndSection
    <2>2. c \in FileType /\ c.hunks = st.hunks
      BY <1>1, <1>6, FileOfType, ParserFields DEF InSection
    <2> DEFINE files == Append(st.files, c)
               n == Len(st.files)
    <2>3. /\ n \in Nat /\ files \in Seq(FileType) /\ DOMAIN files = 1 .. n + 1 /\ files[n + 1] = c
          /\ \A k \in 1 .. n : files[k] = st.files[k]
          /\ DOMAIN st.files = 1 .. n /\ Len(files) = n + 1
      <3>1. st.files \in Seq(FileType)
        BY <1>1, ParserFields
      <3> HIDE DEF c
      <3>2. QED BY <2>2, <3>1
    <2>4. FileValid(c) /\ \A k \in 1 .. n : FileId(st.files[k]) # FileId(c)
      BY <1>6, <2>3
    <2> HIDE DEF c, n, files
    <2>5. /\ e \in ParserType /\ e.files = files /\ e.facts = NoFacts /\ e.hunks = <<>>
          /\ e.hunk = {} /\ e.changed = st.changed /\ e.sections = st.sections
          /\ e.fault = st.fault
      <3>1. <<>> \in Seq(HunkType)
        OBVIOUS
      <3>2. QED BY <1>1, <1>6, <2>3, <3>1, NoFactsType DEF ParserType, files
    <2> HIDE DEF e
    <2>6. ~InSection(e)
      BY <2>5, NoFactsType DEF InSection, Stated
    <2>7. GoodHunks(c.hunks)
      BY <2>2 DEF ParserOk
    <2>8. GoodFiles(files)
      <3>1. /\ \A k \in 1 .. n : FileValid(st.files[k]) /\ GoodHunks(st.files[k].hunks)
            /\ \A j, k \in 1 .. n : j # k => FileId(st.files[j]) # FileId(st.files[k])
        BY <2>3 DEF ParserOk, GoodFiles
      <3>2. \A k \in 1 .. n + 1 : k = n + 1 \/ k \in 1 .. n
        BY <2>3
      <3>3. \A k \in 1 .. n + 1 : FileValid(files[k]) /\ GoodHunks(files[k].hunks)
        BY <2>3, <2>4, <2>7, <3>1, <3>2
      <3>4. \A j, k \in 1 .. n + 1 : j # k => FileId(files[j]) # FileId(files[k])
        BY <2>3, <2>4, <3>1, <3>2
      <3>5. QED BY <2>3, <3>3, <3>4 DEF GoodFiles
    <2>9. CountsAgree(e)
      <3>1. /\ st.changed <= MaxChangedLines
            /\ st.changed = ChangedInFiles(st.files) + ChangedInAll(st.hunks)
            /\ n + 1 <= st.sections
        BY <1>6 DEF ParserOk, CountsAgree, n
      <3>2. ChangedInFiles(files) = ChangedInFiles(st.files) + ChangedInAll(st.hunks)
        BY <1>1, <2>2, FilesCounted, ParserFields DEF files
      <3>3. ChangedInAll(<<>>) = 0 /\ ChangedInFiles(files) \in Nat
        <4>1. <<>> \in Seq(HunkType)
          OBVIOUS
        <4>2. QED BY <2>3, <4>1, FilesCounted, HunksCounted
      <3>4. e.changed = ChangedInFiles(e.files) + ChangedInAll(e.hunks)
        BY <2>5, <3>1, <3>2, <3>3
      <3>5. Len(e.files) + 0 <= e.sections
        BY <2>3, <2>5, <3>1
      <3>6. QED BY <2>5, <2>6, <3>1, <3>4, <3>5 DEF CountsAgree
    <2>10. GoodHunks(<<>>)
      BY DEF GoodHunks
    <2>11. ParserOk(e)
      BY <2>5, <2>6, <2>8, <2>9, <2>10 DEF ParserOk
    <2>12. QED BY <2>1, <2>5, <2>11
  <1>7. QED BY <1>2, <1>4, <1>5, <1>6

\* Every file had a section of its own.
LEMMA FilesAreSections ==
  ASSUME NEW st, ParserOk(st)
  PROVE  Len(st.files) <= st.sections
  <1>1. st.sections \in Nat /\ Len(st.files) \in Nat
    BY ParserFields DEF ParserOk
  <1>2. Len(st.files) + (IF InSection(st) THEN 1 ELSE 0) <= st.sections
    BY DEF ParserOk, CountsAgree
  <1>3. CASE InSection(st)
    <2>1. Len(st.files) + 1 <= st.sections
      BY <1>2, <1>3
    <2>2. QED BY <1>1, <2>1
  <1>4. CASE ~InSection(st)
    <2>1. Len(st.files) + 0 <= st.sections
      BY <1>2, <1>4
    <2>2. QED BY <1>1, <2>1
  <1>5. QED BY <1>3, <1>4

\* "diff --git" opens the next section.
LEMMA HeaderOk ==
  ASSUME NEW st, ParserOk(st), NEW old \in Paths, NEW new \in Paths
  PROVE  ParserOk(Header(st, [old |-> old, new |-> new]))
  <1> DEFINE ended == EndSection(st)
             paths == [old |-> old, new |-> new]
             counted == [ended EXCEPT !.sections = @ + 1]
             facts == [ended.facts EXCEPT !.header = {paths}]
             e == [ended EXCEPT !.sections = @ + 1, !.facts = facts]
  <1>1. ParserOk(ended) /\ (ended.fault = "none" => ended.hunks = <<>> /\ ended.hunk = {})
    BY EndSectionOk
  <1> HIDE DEF ended
  <1>2. ended \in ParserType /\ ended.sections \in Nat /\ Len(ended.files) \in Nat
    BY <1>1, ParserFields DEF ParserOk
  <1>3. CASE ended.fault # "none"
    <2>1. /\ counted \in ParserType /\ counted.files = ended.files /\ counted.facts = ended.facts
          /\ counted.hunks = ended.hunks /\ counted.hunk = ended.hunk
          /\ counted.changed = ended.changed /\ counted.sections = ended.sections + 1
      BY <1>2 DEF ParserType
    <2> HIDE DEF counted
    <2>2. ParserOk(counted)
      BY <1>1, <1>2, <2>1, CountsOk
    <2>3. QED BY <1>3, <2>2 DEF Header, ended, counted
  <1>4. CASE ended.fault = "none"
    <2>0. Header(st, paths) = e
      <3>1. [ended EXCEPT !.sections = @ + 1, !.facts.header = {paths}] = e
        BY <1>2 DEF ParserType
      <3>2. QED BY <1>4, <3>1 DEF Header, ended
    <2>1. facts \in FactsType
      <3>1. {paths} \in SUBSET ValuesOf("header") /\ AtMostOne({paths}) /\ "header" \in FactNames
        BY DEF ValuesOf, AtMostOne, FactNames
      <3>2. QED BY <1>2, <3>1, FactChange, ParserFields
    <2>2. /\ e \in ParserType /\ e.files = ended.files /\ e.hunks = ended.hunks
          /\ e.hunk = ended.hunk /\ e.changed = ended.changed /\ e.sections = ended.sections + 1
          /\ e.facts = facts
      <3> DEFINE more == [ended EXCEPT !.sections = @ + 1]
      <3> HIDE DEF facts
      <3>1. /\ more \in ParserType /\ more.files = ended.files /\ more.hunks = ended.hunks
            /\ more.hunk = ended.hunk /\ more.changed = ended.changed
            /\ more.sections = ended.sections + 1
        BY <1>2 DEF ParserType
      <3>2. e = [more EXCEPT !.facts = facts]
        BY <1>2 DEF ParserType
      <3> HIDE DEF more, e
      <3>3. QED BY <2>1, <3>1, <3>2 DEF ParserType
    <2>3. InSection(e)
      <3>1. "header" \in DOMAIN ended.facts
        BY <1>2, FactKinds, ParserFields DEF FactNames
      <3>2. facts["header"] = {paths}
        BY <3>1
      <3> HIDE DEF e, facts
      <3>3. QED BY <2>2, <3>2 DEF InSection, Stated
    <2> HIDE DEF e, facts
    <2>4. CountsAgree(e)
      <3>2. Len(ended.files) <= ended.sections
        BY <1>1, FilesAreSections
      <3>3. Len(e.files) + 1 <= e.sections
        BY <1>2, <2>2, <3>2
      <3>4. QED BY <1>1, <2>2, <2>3, <3>3 DEF ParserOk, CountsAgree
    <2>5. ParserOk(e)
      BY <1>1, <2>2, <2>3, <2>4 DEF ParserOk
    <2>6. QED BY <2>0, <2>5
  <1>5. QED BY <1>3, <1>4

\* A fact about the file of the section.
LEMMA FactOk ==
  ASSUME NEW st, ParserOk(st), NEW name \in DOMAIN FactValues, NEW value \in FactValues[name]
  PROVE  ParserOk(Fact(st, name, value))
  <1> DEFINE e == [st EXCEPT !.facts[name] = {value}]
  <1>1. st \in ParserType /\ "malformed" \in FaultType
    BY DEF ParserOk, FaultType
  <1>2. name \in FactNames \ {"header"}
    BY DEF FactValues, FactNames
  <1>3. CASE Fact(st, name, value) = st
    BY <1>3
  <1>4. CASE Fact(st, name, value) = Fails(st, "malformed")
    BY <1>1, <1>4, FailsOk
  <1>5. CASE Fact(st, name, value) = e
    <2>1. [st.facts EXCEPT ![name] = {value}] \in FactsType
      <3>1. {value} \in SUBSET ValuesOf(name) /\ AtMostOne({value})
        BY <1>2 DEF ValuesOf, AtMostOne
      <3>2. QED BY <1>1, <1>2, <3>1, FactChange, ParserFields
    <2>2. /\ e \in ParserType /\ e.files = st.files /\ e.hunks = st.hunks
          /\ e.hunk = st.hunk /\ e.changed = st.changed /\ e.sections = st.sections
          /\ e.facts = [st.facts EXCEPT ![name] = {value}]
      BY <1>1, <2>1 DEF ParserType
    <2>3. InSection(e) <=> InSection(st)
      <3>1. e.facts["header"] = st.facts["header"]
        <4>1. DOMAIN st.facts = FactNames
          BY <1>1, FactKinds, ParserFields
        <4>2. "header" \in FactNames
          BY DEF FactNames
        <4> HIDE DEF e
        <4>3. QED BY <1>2, <2>2, <4>1, <4>2
      <3> HIDE DEF e
      <3>2. QED BY <3>1 DEF InSection, Stated
    <2> HIDE DEF e
    <2>4. CountsAgree(e)
      BY <2>2, <2>3 DEF ParserOk, CountsAgree
    <2>5. ParserOk(e)
      BY <2>2, <2>3, <2>4 DEF ParserOk
    <2>6. QED BY <1>5, <2>5
  <1>6. QED BY <1>3, <1>4, <1>5 DEF Fact

\* A good hunk, opened or with one line more, is the open one or one of the
\* complete ones; the count of changed lines goes with it.
LEMMA WithHunkOk ==
  ASSUME NEW st, ParserOk(st), InSection(st), NEW h \in HunkType, GoodHunk(h),
         NEW changed \in Nat, changed <= MaxChangedLines,
         changed = ChangedInFiles(st.files) + ChangedInAll(st.hunks) + ChangedIn(h)
  PROVE  ParserOk([WithHunk(st, h) EXCEPT !.changed = changed])
  <1> DEFINE with == WithHunk(st, h)
             e == [with EXCEPT !.changed = changed]
  <1>1. st \in ParserType /\ st.hunks \in Seq(HunkType) /\ st.files \in Seq(FileType)
    BY ParserFields DEF ParserOk
  <1>2. Len(st.files) + (IF InSection(st) THEN 1 ELSE 0) <= st.sections
    BY DEF ParserOk, CountsAgree
  <1>3. CASE Complete(h)
    <2> DEFINE hunks == Append(st.hunks, h)
               n == Len(st.hunks)
    <2>1. /\ n \in Nat /\ hunks \in Seq(HunkType) /\ DOMAIN hunks = 1 .. n + 1 /\ hunks[n + 1] = h
          /\ \A k \in 1 .. n : hunks[k] = st.hunks[k]
          /\ DOMAIN st.hunks = 1 .. n
      BY <1>1
    <2>2. ChangedInAll(hunks) = ChangedInAll(st.hunks) + ChangedIn(h)
      BY <1>1, HunksCounted
    <2> HIDE DEF hunks, n
    <2>3. {} \in SUBSET HunkType /\ AtMostOne({})
      BY DEF AtMostOne
    <2>4. /\ with \in ParserType /\ with.files = st.files /\ with.facts = st.facts
          /\ with.hunks = hunks /\ with.hunk = {} /\ with.sections = st.sections
      <3>1. with = [st EXCEPT !.hunks = hunks, !.hunk = {}]
        BY <1>3 DEF WithHunk, hunks
      <3> HIDE DEF with
      <3>2. QED BY <1>1, <2>1, <2>3, <3>1 DEF ParserType
    <2> HIDE DEF with
    <2>5. /\ e \in ParserType /\ e.files = st.files /\ e.facts = st.facts
          /\ e.hunks = hunks /\ e.hunk = {} /\ e.sections = st.sections /\ e.changed = changed
      BY <2>4 DEF ParserType
    <2> HIDE DEF e
    <2>6. InSection(e)
      BY <2>5 DEF InSection
    <2>7. GoodHunks(hunks)
      <3>1. \A k \in 1 .. n : GoodHunk(st.hunks[k]) /\ Complete(st.hunks[k])
        BY <2>1 DEF ParserOk, GoodHunks
      <3>2. \A k \in 1 .. n + 1 : k = n + 1 \/ k \in 1 .. n
        BY <2>1
      <3>3. QED BY <1>3, <2>1, <3>1, <3>2 DEF GoodHunks
    <2>8. ChangedInFiles(st.files) \in Nat /\ ChangedInAll(st.hunks) \in Nat /\ ChangedIn(h) \in Nat
      BY <1>1, FilesCounted, HunksCounted, OfTypeCounts
    <2>9. changed = ChangedInFiles(st.files) + ChangedInAll(hunks)
      BY <2>2, <2>8
    <2>10. CountsAgree(e)
      BY <1>2, <2>5, <2>6, <2>9 DEF CountsAgree
    <2>11. ParserOk(e)
      BY <2>5, <2>6, <2>7, <2>10 DEF ParserOk
    <2>12. QED BY <2>11 DEF e, with
  <1>4. CASE ~Complete(h)
    <2>3. {h} \in SUBSET HunkType /\ AtMostOne({h})
      BY DEF AtMostOne
    <2>4. /\ with \in ParserType /\ with.files = st.files /\ with.facts = st.facts
          /\ with.hunks = st.hunks /\ with.hunk = {h} /\ with.sections = st.sections
      <3>1. with = [st EXCEPT !.hunk = {h}]
        BY <1>4 DEF WithHunk
      <3> HIDE DEF with
      <3>2. QED BY <1>1, <2>3, <3>1 DEF ParserType
    <2> HIDE DEF with
    <2>5. /\ e \in ParserType /\ e.files = st.files /\ e.facts = st.facts
          /\ e.hunks = st.hunks /\ e.hunk = {h} /\ e.sections = st.sections /\ e.changed = changed
      BY <2>4 DEF ParserType
    <2> HIDE DEF e
    <2>6. InSection(e)
      BY <2>5 DEF InSection
    <2>10. CountsAgree(e)
      BY <1>2, <2>5, <2>6 DEF CountsAgree
    <2>11. ParserOk(e)
      BY <2>5, <2>6, <2>10 DEF ParserOk
    <2>12. QED BY <2>11 DEF e, with
  <1>5. QED BY <1>3, <1>4

\* "@@" opens a hunk.
LEMMA HunkHeaderOk ==
  ASSUME NEW st, ParserOk(st), NEW l,
         {l.oldStart, l.oldCount, l.newStart, l.newCount} \subseteq Nat
  PROVE  ParserOk(HunkHeader(st, l))
  <1> DEFINE h == [oldStart |-> l.oldStart, oldCount |-> l.oldCount,
                   newStart |-> l.newStart, newCount |-> l.newCount, lines |-> <<>>]
             wrong == \/ ~InSection(st) \/ st.hunk # {}
                      \/ st.hunks = <<>> /\ ~HeaderAgrees(st.facts)
                      \/ l.oldCount > 0 /\ l.oldStart = 0
                      \/ l.newCount > 0 /\ l.newStart = 0
  <1>1. st \in ParserType /\ "malformed" \in FaultType
    BY DEF ParserOk, FaultType
  <1>2. CASE st.fault # "none"
    BY <1>2 DEF HunkHeader
  <1>3. CASE st.fault = "none" /\ wrong
    <2>1. HunkHeader(st, l) = Fails(st, "malformed")
      BY <1>3 DEF HunkHeader
    <2>2. QED BY <1>1, <2>1, FailsOk
  <1>4. CASE st.fault = "none" /\ ~wrong
    <2>1. HunkHeader(st, l) = WithHunk(st, h)
      BY <1>4 DEF HunkHeader
    <2>2. /\ l.oldStart \in Nat /\ l.oldCount \in Nat /\ l.newStart \in Nat /\ l.newCount \in Nat
          /\ l.oldCount > 0 => l.oldStart > 0
          /\ l.newCount > 0 => l.newStart > 0
      BY <1>4
    <2>3. h \in HunkType /\ GoodHunk(h) /\ ChangedIn(h) = 0
      BY <2>2, EmptyHunk
    <2> HIDE DEF h
    <2>4. /\ st.changed \in Nat /\ st.changed <= MaxChangedLines
          /\ st.changed = ChangedInFiles(st.files) + ChangedInAll(st.hunks) + ChangedIn(h)
      <3>1. /\ st.changed \in Nat /\ st.changed <= MaxChangedLines
            /\ st.changed = ChangedInFiles(st.files) + ChangedInAll(st.hunks)
        BY <1>1, <1>4, ParserFields DEF ParserOk, CountsAgree
      <3>2. QED BY <2>3, <3>1
    <2>5. ParserOk([WithHunk(st, h) EXCEPT !.changed = st.changed])
      BY <1>4, <2>3, <2>4, WithHunkOk
    <2>6. [WithHunk(st, h) EXCEPT !.changed = st.changed] = WithHunk(st, h)
      BY <1>1 DEF WithHunk, ParserType
    <2>7. QED BY <2>1, <2>5, <2>6
  <1>5. QED BY <1>2, <1>3, <1>4

\* A content line of the open hunk.
LEMMA ContentOk ==
  ASSUME NEW st, ParserOk(st), NEW type \in DOMAIN Sides, NEW text \in DOMAIN TextBytes
  PROVE  ParserOk(Content(st, type, text))
  <1> DEFINE h == CHOOSE x \in st.hunk : TRUE
             full == \/ "old" \in Sides[type] /\ Seen(h, "old") >= h.oldCount
                     \/ "new" \in Sides[type] /\ Seen(h, "new") >= h.newCount
             l == Located(h, type, text)
             g == Longer(h, l)
             changed == IF type = "context" THEN st.changed ELSE st.changed + 1
  <1>1. st \in ParserType /\ "malformed" \in FaultType /\ "too_large" \in FaultType
    BY DEF ParserOk, FaultType
  <1>2. CASE st.fault # "none"
    BY <1>2 DEF Content
  <1>3. CASE st.fault = "none" /\ st.hunk = {}
    <2>1. Content(st, type, text) = Fails(st, "malformed")
      BY <1>3 DEF Content
    <2>2. QED BY <1>1, <2>1, FailsOk
  <1>4. CASE st.fault = "none" /\ st.hunk # {} /\ type # "context" /\ st.changed >= MaxChangedLines
    <2>1. Content(st, type, text) = Fails(st, "too_large")
      BY <1>4 DEF Content
    <2>2. QED BY <1>1, <2>1, FailsOk
  <1>5. CASE /\ st.fault = "none" /\ st.hunk # {}
             /\ ~(type # "context" /\ st.changed >= MaxChangedLines) /\ full
    <2>1. Content(st, type, text) = Fails(st, "malformed")
      BY <1>5 DEF Content
    <2>2. QED BY <1>1, <2>1, FailsOk
  <1>6. CASE /\ st.fault = "none" /\ st.hunk # {}
             /\ ~(type # "context" /\ st.changed >= MaxChangedLines) /\ ~full
    <2>1. Content(st, type, text) =
             [WithHunk(st, g) EXCEPT !.changed = IF type = "context" THEN @ ELSE @ + 1]
      BY <1>6 DEF Content, Longer
    <2>2. h \in st.hunk
      BY <1>6
    <2>3. /\ h \in HunkType /\ GoodHunk(h) /\ InSection(st) /\ st.changed <= MaxChangedLines
          /\ st.changed = ChangedInFiles(st.files) + ChangedInAll(st.hunks) + ChangedIn(h)
          /\ st.changed \in Nat
      BY <1>1, <2>2, ParserFields DEF ParserOk, CountsAgree
    <2>4. ~full
      BY <1>6
    <2>5. ~(type # "context" /\ st.changed >= MaxChangedLines)
      BY <1>6
    <2> HIDE DEF h
    <2>6. /\ "old" \in Sides[type] => Seen(h, "old") < h.oldCount
          /\ "new" \in Sides[type] => Seen(h, "new") < h.newCount
      <3>1. /\ Seen(h, "old") \in Nat /\ Seen(h, "new") \in Nat
            /\ h.oldCount \in Nat /\ h.newCount \in Nat
        BY <2>3, HunkFields, OnSideFinite
      <3>2. QED BY <2>4, <3>1
    <2>7. l \in LineType /\ l.type = type
      BY <2>3, LocatedLine
    <2>8. GoodHunk(g)
      BY <2>3, <2>6, LineKeepsHunk
    <2> HIDE DEF l, full
    <2>9. g \in HunkType /\ ChangedIn(h) \in Nat
          /\ ChangedIn(g) = ChangedIn(h) + IF type = "context" THEN 0 ELSE 1
      BY <2>3, <2>7, OneMoreLine, OfTypeCounts
    <2> HIDE DEF g
    <2>10. ChangedInFiles(st.files) \in Nat /\ ChangedInAll(st.hunks) \in Nat
      BY <1>1, FilesCounted, HunksCounted, ParserFields
    <2>11. /\ changed \in Nat /\ changed <= MaxChangedLines
           /\ changed = ChangedInFiles(st.files) + ChangedInAll(st.hunks) + ChangedIn(g)
      <3>1. CASE type = "context"
        BY <2>3, <2>9, <2>10, <3>1
      <3>2. CASE type # "context"
        <4>1. st.changed < MaxChangedLines /\ MaxChangedLines \in Nat
          BY <2>3, <2>5, <3>2, InputAssumption
        <4>2. QED BY <2>3, <2>9, <2>10, <3>2, <4>1
      <3>3. QED BY <3>1, <3>2
    <2> HIDE DEF changed
    <2>12. ParserOk([WithHunk(st, g) EXCEPT !.changed = changed])
      BY <2>3, <2>8, <2>9, <2>11, WithHunkOk
    <2>13. WithHunk(st, g).changed = st.changed
      BY <1>1 DEF WithHunk, ParserType
    <2>14. Content(st, type, text) = [WithHunk(st, g) EXCEPT !.changed = changed]
      BY <2>1, <2>13 DEF changed
    <2>15. QED BY <2>12, <2>14
  <1>7. QED BY <1>2, <1>3, <1>4, <1>5, <1>6

\* Lines that say nothing, or nothing that is known.
LEMMA RestOk ==
  ASSUME NEW st, ParserOk(st)
  PROVE  ParserOk(NoNewline(st)) /\ ParserOk(Unknown(st))
  <1>1. st \in ParserType /\ "malformed" \in FaultType
    BY DEF ParserOk, FaultType
  <1>2. ParserOk(Fails(st, "malformed"))
    BY <1>1, FailsOk
  <1>3. QED BY <1>2 DEF NoNewline, Unknown

-----------------------------------------------------------------------------
(* The invariant of the input path                                         *)

\* A line that is fed keeps the parser.
LEMMA FeedOk ==
  ASSUME ParserOk(parser), NEW l, IsLine(l),
         \/ FeedHeader(l) \/ FeedFact(l) \/ FeedMarkers(l) \/ FeedHunkHeader(l)
         \/ FeedContent(l) \/ FeedNoNewline(l) \/ FeedUnknown(l)
  PROVE  ParserOk(parser') /\ stage = "read" /\ UNCHANGED <<stage, result, dialect, change, plan>>
  <1>1. ASSUME NEW n \in Nat, NEW next, ParserOk(next), Feed(n, next)
        PROVE  ParserOk(parser') /\ stage = "read" /\ UNCHANGED <<stage, result, dialect, change, plan>>
    BY <1>1, CountedOk DEF Feed
  <1>2. 1 \in Nat /\ 2 \in Nat
    OBVIOUS
  <1>3. CASE FeedHeader(l)
    <2>1. l.old \in Paths /\ l.new \in Paths
      BY <1>3 DEF FeedHeader, IsLine
    <2>2. QED BY <1>1, <1>2, <1>3, <2>1, HeaderOk DEF FeedHeader
  <1>4. CASE FeedFact(l)
    <2>1. l.name \in DOMAIN FactValues /\ l.value \in FactValues[l.name]
      BY <1>4 DEF FeedFact, IsLine
    <2>2. QED BY <1>1, <1>2, <1>4, <2>1, FactOk DEF FeedFact
  <1>5. CASE FeedMarkers(l)
    <2>1. l.name \in DOMAIN FactValues /\ l.value \in FactValues[l.name]
      BY <1>5 DEF FeedMarkers, IsLine
    <2>2. QED BY <1>1, <1>2, <1>5, <2>1, FactOk DEF FeedMarkers
  <1>6. CASE FeedHunkHeader(l)
    <2>1. {l.oldStart, l.oldCount, l.newStart, l.newCount} \subseteq Nat
      BY <1>6 DEF FeedHunkHeader, IsLine
    <2>2. QED BY <1>1, <1>2, <1>6, <2>1, HunkHeaderOk DEF FeedHunkHeader
  <1>7. CASE FeedContent(l)
    <2>1. l.type \in DOMAIN Sides /\ l.text \in DOMAIN TextBytes
      BY <1>7 DEF FeedContent, IsLine
    <2>2. QED BY <1>1, <1>2, <1>7, <2>1, ContentOk DEF FeedContent
  <1>8. CASE FeedNoNewline(l)
    BY <1>1, <1>2, <1>8, RestOk DEF FeedNoNewline
  <1>9. CASE FeedUnknown(l)
    BY <1>1, <1>2, <1>9, RestOk DEF FeedUnknown
  <1>10. QED BY <1>3, <1>4, <1>5, <1>6, <1>7, <1>8, <1>9

\* What a verdict says.
LEMMA Verdicts ==
  ASSUME NEW st, ParserOk(st), NEW s \in BOOLEAN
  PROVE  /\ Verdict(st, s) \notin {"planned", "refused"}
         /\ Verdict(st, s) = "accepted" =>
               EndSection(st).fault = "none" /\ st.sections <= MaxFiles
  <1> DEFINE ended == EndSection(st)
  <1>1. ended.fault \in FaultType /\ st.physical \in Nat /\ MaxPhysicalLines \in Nat
    BY EndSectionOk, ParserFields, InputAssumption DEF ParserOk
  <1>2. st.sections \in Nat /\ MaxFiles \in Nat
    BY ParserFields, InputAssumption DEF ParserOk
  <1> HIDE DEF ended
  <1>3. CASE st.physical > MaxPhysicalLines
    <2>1. ~(st.physical <= MaxPhysicalLines)
      BY <1>1, <1>3
    <2>2. Verdict(st, s) = "input_too_large"
      BY <1>3, <2>1 DEF Verdict
    <2>3. QED BY <2>2
  <1>4. CASE ~(st.physical > MaxPhysicalLines) /\ st.physical <= MaxPhysicalLines /\ st.physical > 0 /\ ~s
    <2>1. Verdict(st, s) = "input_malformed"
      BY <1>4 DEF Verdict
    <2>2. QED BY <2>1
  <1>5. CASE ~(st.physical > MaxPhysicalLines) /\ ~(st.physical <= MaxPhysicalLines /\ st.physical > 0 /\ ~s)
    <2>1. Verdict(st, s) = IF st.sections > MaxFiles THEN "input_too_large"
                           ELSE CASE ended.fault = "none"       -> "accepted"
                                  [] ended.fault = "malformed"  -> "input_malformed"
                                  [] ended.fault = "incomplete" -> "input_incomplete"
                                  [] ended.fault = "too_large"  -> "input_too_large"
      BY <1>5 DEF Verdict, ended
    <2>2. ended.fault \in {"none", "malformed", "incomplete", "too_large"}
      BY <1>1 DEF FaultType
    <2>3. QED BY <1>2, <2>1, <2>2 DEF ended
  <1>6. QED BY <1>1, <1>3, <1>4, <1>5

\* The invariant holds at first.
LEMMA PathInit ==
  ASSUME Init PROVE PathInv
  <1>1. change.files = <<>> /\ GoodFiles(<<>>)
    <2>1. <<>> \in Seq(FileType) /\ DOMAIN <<>> = {}
      OBVIOUS
    <2>2. QED BY <2>1 DEF Init, NoChange, ChangeSet, GoodFiles
  <1>2. QED BY <1>1, StartOk DEF Init, PathInv

\* Every step keeps the invariant.
LEMMA PathNext ==
  ASSUME PathInv, RemoteInv, RemoteInv', [Next]_vars
  PROVE  PathInv'
  <1>0. started' \in BOOLEAN
    BY DEF PathInv, Next, vars, Acquire, AcquireRemote, Feed, FeedHeader, FeedFact, FeedMarkers,
           FeedHunkHeader, FeedContent, FeedNoNewline, FeedUnknown, EndOfInput, MakePlan
  <1>1. CASE Acquire
    <2>1. result' \notin {"planned", "refused"}
      BY <1>1 DEF Acquire, AcquireOutcome
    <2>2. QED BY <1>0, <1>1, <2>1 DEF Acquire, PathInv
  <1>2. CASE AcquireRemote
    <2>1. remote'.code \notin {"planned", "refused"}
      <3>1. remote'.code \in Codes
        BY DEF RemoteInv, RemoteType
      <3>2. {"planned", "refused"} \cap Codes = {}
        BY DEF Codes, Faults, FaultCode
      <3>3. QED BY <3>1, <3>2
    <2>2. stage = "acquire" /\ result \notin {"planned", "refused"}
      BY <1>2 DEF AcquireRemote, PathInv
    <2>3. result' \in {"acquired", remote'.code, result}
      BY <1>2 DEF AcquireRemote
    <2>4. result' \notin {"planned", "refused"} /\ plan = NoPlan
      BY <2>1, <2>2, <2>3 DEF PathInv
    <2>5. UNCHANGED <<dialect, parser, change, plan>>
      BY <1>2 DEF AcquireRemote
    <2>6. QED BY <1>0, <2>4, <2>5 DEF PathInv
  <1>3. ASSUME NEW l \in dialect.lines,
               \/ FeedHeader(l) \/ FeedFact(l) \/ FeedMarkers(l) \/ FeedHunkHeader(l)
               \/ FeedContent(l) \/ FeedNoNewline(l) \/ FeedUnknown(l)
        PROVE  PathInv'
    <2>1. IsLine(l) /\ ParserOk(parser)
      BY DialectAssumption DEF PathInv
    <2>2. ParserOk(parser') /\ UNCHANGED <<stage, result, dialect, change, plan>>
      BY <1>3, <2>1, FeedOk
    <2>3. QED BY <1>0, <2>2 DEF PathInv
  <1>4. CASE EndOfInput
    <2> DEFINE ended == EndSection(parser)
               verdict == Verdict(parser, started)
    <2>1. ParserOk(parser) /\ ParserOk(ended) /\ verdict \notin {"planned", "refused"}
      BY EndSectionOk, Verdicts DEF PathInv
    <2>2. GoodFiles(ended.files) /\ ChangeSet(ended.files).files = ended.files
      BY <2>1 DEF ParserOk, ChangeSet
    <2> HIDE DEF ended, verdict
    <2>3. /\ change' = ChangeSet(ended.files) \/ change' = change
          /\ result' \in {"accepted", "input_malformed", verdict}
          /\ stage = "read" /\ parser' = Start
          /\ UNCHANGED <<dialect, started, plan, remoteVars>>
      BY <1>4 DEF EndOfInput, ended, verdict
    <2>4. GoodFiles(change'.files) /\ plan' = NoPlan
      BY <2>2, <2>3 DEF PathInv
    <2>5. result' \notin {"planned", "refused"}
      BY <2>1, <2>3
    <2>6. QED BY <1>0, <2>3, <2>4, <2>5, StartOk DEF PathInv
  <1>5. ASSUME NEW capacity \in Capacities, MakePlan(capacity) PROVE PathInv'
    <2>1. /\ plan' = Plan(change.files, capacity) /\ UNCHANGED <<dialect, parser, change>>
          /\ result' = (IF PlanValid(plan') THEN "planned" ELSE "refused") /\ stage' = "done"
      BY <1>5 DEF MakePlan
    <2>2. QED BY <1>0, <2>1 DEF PathInv
  <1>6. CASE UNCHANGED vars
    BY <1>6 DEF vars, PathInv
  <1>7. QED BY <1>1, <1>2, <1>3, <1>4, <1>5, <1>6 DEF Next

\* On every document and for every model, the parser's counts, numbers and files
\* are as they must be, and what is planned is the accepted change.
THEOREM PathInvariance == Spec => []PathInv
  <1>1. Init => PathInv
    BY PathInit
  <1>2. PathInv /\ RemoteInv /\ RemoteInv' /\ [Next]_vars => PathInv'
    BY PathNext
  <1>3. QED BY <1>1, <1>2, Invariance, PTL DEF Spec

-----------------------------------------------------------------------------
(* The aggregate                                                           *)

\* A file that the parser put together is valid if its hunks are in order.
LEMMA FileAgrees ==
  ASSUME NEW f, NEW hunks, GoodHunks(hunks), ContentAgrees(f, hunks)
  PROVE  LET c == FileOf(f, hunks)
         IN  FileValid(c) <=> Ordered(c.hunks) /\ (c.old # Null \/ c.new # Null)
  <1> DEFINE c == FileOf(f, hunks)
  <1>1. c.hunks = hunks /\ (c.type = "binary" => Stated(f, "binary"))
    BY DEF FileOf, ChangeType
  <1>2. IsBinary(c) => c.hunks = <<>>
    BY <1>1 DEF IsBinary, ContentAgrees
  <1>3. \A k \in DOMAIN c.hunks : Complete(c.hunks[k]) /\ LocationsValid(c.hunks[k])
    BY <1>1 DEF GoodHunks, GoodHunk
  <1> HIDE DEF c
  <1>4. FileValid(c) <=> Ordered(c.hunks) /\ (c.old # Null \/ c.new # Null)
    BY <1>2, <1>3 DEF FileValid
  <1>5. QED BY <1>4 DEF c

\* What is counted of the files is what the change set has of them.
LEMMA GoodFilesAreAChange ==
  ASSUME NEW files, GoodFiles(files), Len(files) <= MaxFiles, ChangedInFiles(files) <= MaxChangedLines
  PROVE  ChangeSetValid(ChangeSet(files))
  <1> DEFINE s == ChangeSet(files)
             id == [k \in 1 .. Len(files) |-> FileId(files[k])]
  <1>1. Len(files) \in Nat /\ DOMAIN files = 1 .. Len(files)
    BY DEF GoodFiles
  <1>2. /\ s.files = files /\ s.changed = ChangedInFiles(files)
        /\ s.reviewable = {FileId(files[k]) : k \in {k \in DOMAIN files : ~IsBinary(files[k])}}
        /\ s.unreviewable = {FileId(files[k]) : k \in {k \in DOMAIN files : IsBinary(files[k])}}
        /\ s.coverage = IF \E k \in DOMAIN files : IsBinary(files[k]) THEN "partial" ELSE "complete"
    BY DEF ChangeSet, ChangedInFiles
  <1> HIDE DEF s
  <1>3. Cardinality({FileId(files[k]) : k \in DOMAIN files}) = Len(files)
    <2>1. \A j, k \in 1 .. Len(files) : j # k => id[j] # id[k]
      BY <1>1 DEF GoodFiles
    <2>2. {id[k] : k \in 1 .. Len(files)} = {FileId(files[k]) : k \in DOMAIN files}
      BY <1>1
    <2>3. DOMAIN id = 1 .. Len(files)
      OBVIOUS
    <2> HIDE DEF id
    <2>4. QED BY <1>1, <2>1, <2>2, <2>3, DistinctCount
  <1>4. s.reviewable \cup s.unreviewable = {FileId(files[k]) : k \in DOMAIN files}
    BY <1>2
  <1>5. s.reviewable \cap s.unreviewable = {}
    <2>1. \A j, k \in DOMAIN files : ~IsBinary(files[j]) /\ IsBinary(files[k])
                                       => FileId(files[j]) # FileId(files[k])
      BY DEF GoodFiles
    <2>2. QED BY <1>2, <2>1
  <1>6. s.coverage = IF s.unreviewable = {} THEN "complete" ELSE "partial"
    BY <1>2
  <1>7. QED BY <1>2, <1>3, <1>4, <1>5, <1>6
            DEF ChangeSetValid, CoverageValid, ProofValid, GoodFiles, s

\* The aggregate refuses nothing that the parser accepted but hunks that are
\* out of order and a file on no side: the two never count or number apart,
\* whatever the document and its limits are.
THEOREM AggregatesAgree == Spec => []AggregateAgrees
  <1>1. PathInv => AggregateAgrees
    <2> SUFFICES ASSUME PathInv PROVE AggregateAgrees
      OBVIOUS
    <2>1. ParserOk(parser) /\ started \in BOOLEAN
      BY DEF PathInv
    <2>2. ASSUME Consistent(parser.facts, parser.hunks)
          PROVE  LET c == FileOf(parser.facts, parser.hunks)
                 IN  FileValid(c) <=> Ordered(c.hunks) /\ (c.old # Null \/ c.new # Null)
      <3>1. GoodHunks(parser.hunks) /\ ContentAgrees(parser.facts, parser.hunks)
        BY <2>1, <2>2 DEF ParserOk, Consistent
      <3>2. QED BY <3>1, FileAgrees
    <2>3. ASSUME Verdict(parser, started) = "accepted"
          PROVE  ChangeSetValid(ChangeSet(EndSection(parser).files))
      <3> DEFINE ended == EndSection(parser)
      <3>1. ParserOk(ended) /\ ended.sections = parser.sections /\ parser.sections <= MaxFiles
            /\ ended.fault = "none"
        BY <2>1, <2>3, EndSectionOk, Verdicts
      <3> HIDE DEF ended
      <3>2. ended \in ParserType /\ ended.sections \in Nat /\ Len(ended.files) \in Nat /\ MaxFiles \in Nat
        BY <3>1, ParserFields, InputAssumption DEF ParserOk
      <3>3. Len(ended.files) <= MaxFiles
        <4>1. Len(ended.files) <= ended.sections
          BY <3>1, FilesAreSections
        <4>2. QED BY <3>1, <3>2, <4>1
      <3>4. ChangedInFiles(ended.files) <= MaxChangedLines
        <4>1. ended.hunk = {} /\ ended.hunks = <<>>
          BY <2>1, <3>1, EndSectionOk DEF ended
        <4>2. ended.changed <= MaxChangedLines
              /\ ended.changed = ChangedInFiles(ended.files) + ChangedInAll(ended.hunks)
          BY <3>1, <4>1 DEF ParserOk, CountsAgree
        <4>3. ChangedInFiles(ended.files) \in Nat /\ ChangedInAll(ended.hunks) = 0
          BY <3>2, <4>1, FilesCounted, HunksCounted, ParserFields
        <4>4. QED BY <4>2, <4>3
      <3>5. GoodFiles(ended.files)
        BY <3>1 DEF ParserOk
      <3>6. QED BY <3>3, <3>4, <3>5, GoodFilesAreAChange DEF ended
    <2>4. QED BY <2>2, <2>3 DEF AggregateAgrees
  <1>2. QED BY <1>1, PathInvariance, PTL

-----------------------------------------------------------------------------
(* The reverse of a diff                                                   *)

Flip(p) == [old |-> p.new, new |-> p.old]

Flipped(S, T) == (\A p \in S : Flip(p) \in T) /\ (\A p \in T : Flip(p) \in S)

IndexFlipped(S, T) ==
    \A x \in S : \E y \in T : y.old = x.new /\ y.new = x.old /\ y.mode = x.mode

\* What flips back is a pair.
LEMMA FlipBack ==
  ASSUME NEW X, NEW Y, NEW p \in [old : X, new : Y]
  PROVE  Flip(p) \in [old : Y, new : X] /\ Flip(p).old = p.new /\ Flip(p).new = p.old /\ Flip(Flip(p)) = p
  <1>1. p = [old |-> p.old, new |-> p.new]
    OBVIOUS
  <1>2. Flip(p) \in [old : Y, new : X] /\ Flip(p).old = p.new /\ Flip(p).new = p.old
    BY DEF Flip
  <1>3. Flip(Flip(p)) = [old |-> p.old, new |-> p.new]
    BY <1>2 DEF Flip
  <1>4. QED BY <1>1, <1>2, <1>3

\* One states of the old side what the other states of the new one.
Mirror(f, g) ==
    /\ f \in FactsType /\ g \in FactsType
    /\ Flipped(f.header, g.header) /\ Flipped(f.marker, g.marker) /\ Flipped(f.binary, g.binary)
    /\ IndexFlipped(f.index, g.index) /\ IndexFlipped(g.index, f.index)
    /\ g.new_file = f.deleted_file /\ g.deleted_file = f.new_file
    /\ g.old_mode = f.new_mode     /\ g.new_mode = f.old_mode
    /\ g.rename_old = f.rename_new /\ g.rename_new = f.rename_old
    /\ g.similarity = f.similarity

\* Facts mirror those that mirror them.
LEMMA MirrorIsSymmetric ==
  ASSUME NEW f, NEW g, Mirror(f, g) PROVE Mirror(g, f)
  BY DEF Mirror, Flipped

\* The pairs of paths, swapped.
LEMMA SwappedPairs ==
  ASSUME NEW X, NEW S \in SUBSET [old : X, new : X], AtMostOne(S)
  PROVE  Swapped(S) \subseteq [old : X, new : X] /\ AtMostOne(Swapped(S)) /\ Flipped(S, Swapped(S))
  <1>1. ASSUME NEW p \in [old : X, new : X]
        PROVE  [p EXCEPT !.old = p.new, !.new = p.old] = Flip(p)
    <2> DEFINE e == [p EXCEPT !.old = p.new, !.new = p.old]
    <2>1. e \in [old : X, new : X] /\ e.old = p.new /\ e.new = p.old
      OBVIOUS
    <2> HIDE DEF e
    <2>2. e = [old |-> e.old, new |-> e.new]
      BY <2>1
    <2>3. QED BY <2>1, <2>2 DEF Flip, e
  <1>2. \A p \in [old : X, new : X] : Flip(p) \in [old : X, new : X] /\ Flip(Flip(p)) = p
    BY DEF Flip
  <1>3. Swapped(S) = {Flip(p) : p \in S}
    BY <1>1 DEF Swapped
  <1>4. QED BY <1>2, <1>3 DEF AtMostOne, Flipped

\* The pairs of hashes, swapped.
LEMMA SwappedIndex ==
  ASSUME NEW S \in SUBSET [old : STRING, new : STRING, mode : BOOLEAN], AtMostOne(S)
  PROVE  /\ Swapped(S) \subseteq [old : STRING, new : STRING, mode : BOOLEAN]
         /\ AtMostOne(Swapped(S)) /\ IndexFlipped(S, Swapped(S)) /\ IndexFlipped(Swapped(S), S)
  <1> DEFINE R == [old : STRING, new : STRING, mode : BOOLEAN]
             swap(p) == [p EXCEPT !.old = p.new, !.new = p.old]
  <1>1. \A p \in R : swap(p) \in R /\ swap(p).old = p.new /\ swap(p).new = p.old /\ swap(p).mode = p.mode
    OBVIOUS
  <1>2. Swapped(S) = {swap(p) : p \in S}
    BY DEF Swapped
  <1> HIDE DEF swap
  <1>3. QED BY <1>1, <1>2 DEF AtMostOne, IndexFlipped

\* The reverse facts are facts, and the mirror image of the facts.
LEMMA ReversedFactsMirror ==
  ASSUME NEW f \in FactsType PROVE Mirror(f, ReversedFacts(f))
  <1> DEFINE g == ReversedFacts(f)
  <1>1. DOMAIN f = FactNames /\ \A n \in FactNames : AtMostOne(f[n]) /\ f[n] \subseteq ValuesOf(n)
    BY FactKinds DEF FactsType
  <1>2. /\ g.header = Swapped(f.header) /\ g.marker = Swapped(f.marker)
        /\ g.binary = Swapped(f.binary) /\ g.index = Swapped(f.index)
        /\ g.new_file = f.deleted_file /\ g.deleted_file = f.new_file
        /\ g.old_mode = f.new_mode     /\ g.new_mode = f.old_mode
        /\ g.rename_old = f.rename_new /\ g.rename_new = f.rename_old
        /\ g.similarity = f.similarity /\ DOMAIN g = FactNames
        /\ g = [n \in FactNames |-> g[n]]
    BY <1>1 DEF ReversedFacts, FactNames
  <1> HIDE DEF g
  <1>3. /\ AtMostOne(f.header) /\ AtMostOne(f.marker) /\ AtMostOne(f.binary) /\ AtMostOne(f.index)
        /\ AtMostOne(f.new_file) /\ AtMostOne(f.deleted_file) /\ AtMostOne(f.old_mode)
        /\ AtMostOne(f.new_mode) /\ AtMostOne(f.rename_old) /\ AtMostOne(f.rename_new)
        /\ AtMostOne(f.similarity)
    BY <1>1 DEF FactNames
  <1>0. /\ f.header \in SUBSET [old : Paths, new : Paths]
        /\ f.marker \in SUBSET [old : MaybePaths, new : MaybePaths]
        /\ f.binary \in SUBSET [old : MaybePaths, new : MaybePaths]
        /\ f.index \in SUBSET [old : STRING, new : STRING, mode : BOOLEAN]
    BY FactKinds
  <1>4. /\ g.header \subseteq [old : Paths, new : Paths] /\ AtMostOne(g.header)
        /\ Flipped(f.header, g.header)
    <2>1. AtMostOne(f.header) /\ f.header \in SUBSET [old : Paths, new : Paths]
      BY <1>0, <1>3
    <2>2. /\ Swapped(f.header) \subseteq [old : Paths, new : Paths]
          /\ AtMostOne(Swapped(f.header)) /\ Flipped(f.header, Swapped(f.header))
      BY <2>1, SwappedPairs
    <2>3. QED BY <1>2, <2>2
  <1>5. /\ g.marker \subseteq [old : MaybePaths, new : MaybePaths] /\ AtMostOne(g.marker)
        /\ Flipped(f.marker, g.marker)
    <2>1. AtMostOne(f.marker) /\ f.marker \in SUBSET [old : MaybePaths, new : MaybePaths]
      BY <1>0, <1>3
    <2>2. /\ Swapped(f.marker) \subseteq [old : MaybePaths, new : MaybePaths]
          /\ AtMostOne(Swapped(f.marker)) /\ Flipped(f.marker, Swapped(f.marker))
      <3> DEFINE X == MaybePaths
      <3> HIDE DEF X
      <3>1. f.marker \in SUBSET [old : X, new : X]
        BY <2>1 DEF X
      <3>2. QED BY <2>1, <3>1, SwappedPairs DEF X
    <2>3. QED BY <1>2, <2>2
  <1>6. /\ g.binary \subseteq [old : MaybePaths, new : MaybePaths] /\ AtMostOne(g.binary)
        /\ Flipped(f.binary, g.binary)
    <2>1. AtMostOne(f.binary) /\ f.binary \in SUBSET [old : MaybePaths, new : MaybePaths]
      BY <1>0, <1>3
    <2>2. /\ Swapped(f.binary) \subseteq [old : MaybePaths, new : MaybePaths]
          /\ AtMostOne(Swapped(f.binary)) /\ Flipped(f.binary, Swapped(f.binary))
      <3> DEFINE X == MaybePaths
      <3> HIDE DEF X
      <3>1. f.binary \in SUBSET [old : X, new : X]
        BY <2>1 DEF X
      <3>2. QED BY <2>1, <3>1, SwappedPairs DEF X
    <2>3. QED BY <1>2, <2>2
  <1>7. /\ g.index \subseteq [old : STRING, new : STRING, mode : BOOLEAN] /\ AtMostOne(g.index)
        /\ IndexFlipped(f.index, g.index) /\ IndexFlipped(g.index, f.index)
    BY <1>0, <1>2, <1>3, SwappedIndex
  <1>8. \A n \in FactNames : g[n] \subseteq ValuesOf(n) /\ AtMostOne(g[n])
    <2>1. /\ ValuesOf("header") = [old : Paths, new : Paths]
          /\ ValuesOf("marker") = [old : MaybePaths, new : MaybePaths]
          /\ ValuesOf("binary") = [old : MaybePaths, new : MaybePaths]
          /\ ValuesOf("index") = [old : STRING, new : STRING, mode : BOOLEAN]
          /\ ValuesOf("new_file") = {TRUE} /\ ValuesOf("deleted_file") = {TRUE}
          /\ ValuesOf("old_mode") = STRING /\ ValuesOf("new_mode") = STRING
          /\ ValuesOf("rename_old") = Paths /\ ValuesOf("rename_new") = Paths
          /\ ValuesOf("similarity") = [kind : {"similarity", "dissimilarity"}, whole : BOOLEAN]
      BY DEF ValuesOf, FactValues, MaybePaths
    <2>2. /\ f.new_file \subseteq {TRUE} /\ f.deleted_file \subseteq {TRUE}
          /\ f.old_mode \subseteq STRING /\ f.new_mode \subseteq STRING
          /\ f.rename_old \subseteq Paths /\ f.rename_new \subseteq Paths
          /\ f.similarity \subseteq [kind : {"similarity", "dissimilarity"}, whole : BOOLEAN]
      BY FactKinds
    <2>3. ASSUME NEW n \in FactNames PROVE g[n] \subseteq ValuesOf(n) /\ AtMostOne(g[n])
      <3>1. CASE n \in {"header", "marker", "binary", "index"}
        BY <1>4, <1>5, <1>6, <1>7, <2>1, <3>1
      <3>2. CASE n \in {"new_file", "deleted_file", "old_mode", "new_mode"}
        BY <1>2, <1>3, <2>1, <2>2, <3>2
      <3>3. CASE n \in {"rename_old", "rename_new", "similarity"}
        BY <1>2, <1>3, <2>1, <2>2, <3>3
      <3>4. QED BY <3>1, <3>2, <3>3 DEF FactNames
    <2>4. QED BY <2>3
  <1>9. g \in FactsType
    <2>1. \A n \in FactNames : g[n] \in UNION {SUBSET ValuesOf(m) : m \in FactNames}
      BY <1>8
    <2>2. g \in [FactNames -> UNION {SUBSET ValuesOf(m) : m \in FactNames}]
      BY <1>2, <2>1
    <2>3. QED BY <1>8, <2>2 DEF FactsType
  <1>10. QED BY <1>2, <1>4, <1>5, <1>6, <1>7, <1>9 DEF Mirror, g

\* What two mirror images agree on.
LEMMA MirrorFacts ==
  ASSUME NEW f, NEW g, Mirror(f, g), Stated(f, "header")
  PROVE  /\ Stated(g, "header")
         /\ Value(g, "header") = Flip(Value(f, "header"))
         /\ f.header = {Value(f, "header")} /\ g.header = {Value(g, "header")}
         /\ Value(f, "header").old \in Paths /\ Value(f, "header").new \in Paths
         /\ Stated(g, "marker") <=> Stated(f, "marker")
         /\ Stated(g, "binary") <=> Stated(f, "binary")
         /\ Stated(g, "index") <=> Stated(f, "index")
         /\ Stated(g, "new_file") <=> Stated(f, "deleted_file")
         /\ Stated(g, "deleted_file") <=> Stated(f, "new_file")
         /\ Stated(g, "old_mode") <=> Stated(f, "new_mode")
         /\ Stated(g, "new_mode") <=> Stated(f, "old_mode")
         /\ Stated(g, "rename_old") <=> Stated(f, "rename_new")
         /\ Stated(g, "rename_new") <=> Stated(f, "rename_old")
         /\ Stated(g, "similarity") <=> Stated(f, "similarity")
         /\ Stated(f, "marker") => Value(g, "marker") = Flip(Value(f, "marker"))
         /\ Stated(f, "binary") => Value(g, "binary") = Flip(Value(f, "binary"))
         /\ Renamed(g) <=> Renamed(f)
  <1>1. /\ Stated(g, "header")
        /\ Stated(g, "marker") <=> Stated(f, "marker")
        /\ Stated(g, "binary") <=> Stated(f, "binary")
        /\ Stated(g, "index") <=> Stated(f, "index")
        /\ Stated(g, "new_file") <=> Stated(f, "deleted_file")
        /\ Stated(g, "deleted_file") <=> Stated(f, "new_file")
        /\ Stated(g, "old_mode") <=> Stated(f, "new_mode")
        /\ Stated(g, "new_mode") <=> Stated(f, "old_mode")
        /\ Stated(g, "rename_old") <=> Stated(f, "rename_new")
        /\ Stated(g, "rename_new") <=> Stated(f, "rename_old")
        /\ Stated(g, "similarity") <=> Stated(f, "similarity")
    BY DEF Mirror, Flipped, IndexFlipped, Stated
  <1>2. /\ AtMostOne(g.header) /\ AtMostOne(g.marker) /\ AtMostOne(g.binary) /\ AtMostOne(f.header)
    BY FactKinds DEF Mirror, FactNames
  <1>3. \A n : /\ Stated(f, n) => Value(f, n) \in f[n]
               /\ Stated(g, n) => Value(g, n) \in g[n]
    BY DEF Stated, Value
  <1>4. Value(g, "header") = Flip(Value(f, "header")) /\ Value(f, "header") \in f.header
        /\ f.header = {Value(f, "header")} /\ g.header = {Value(g, "header")}
    BY <1>1, <1>2, <1>3 DEF Mirror, Flipped, AtMostOne
  <1>5. Value(f, "header").old \in Paths /\ Value(f, "header").new \in Paths
    BY <1>4, FactKinds DEF Mirror
  <1>6. Stated(f, "marker") => Value(g, "marker") = Flip(Value(f, "marker"))
    BY <1>1, <1>2, <1>3 DEF Mirror, Flipped, AtMostOne
  <1>7. Stated(f, "binary") => Value(g, "binary") = Flip(Value(f, "binary"))
    BY <1>1, <1>2, <1>3 DEF Mirror, Flipped, AtMostOne
  <1>8. Renamed(g) <=> Renamed(f)
    BY <1>1, <1>4 DEF Renamed, Flip
  <1>9. QED BY <1>1, <1>4, <1>5, <1>6, <1>7, <1>8

\* The checks of the facts hold of both or of neither.
LEMMA MirrorHeaderAgrees ==
  ASSUME NEW f, NEW g, Mirror(f, g), HeaderAgrees(f)
  PROVE  HeaderAgrees(g)
  <1> DEFINE sidedF == {m \in f.marker : m.old # Null \/ m.new # Null}
             sidedG == {m \in g.marker : m.old # Null \/ m.new # Null}
             pathF(m) == [old |-> IF m.old = Null THEN m.new ELSE m.old,
                          new |-> IF m.new = Null THEN m.old ELSE m.new]
  <1>1. /\ f.marker \subseteq [old : MaybePaths, new : MaybePaths]
        /\ g.marker \subseteq [old : MaybePaths, new : MaybePaths]
        /\ f.header \subseteq [old : Paths, new : Paths]
        /\ g.header \subseteq [old : Paths, new : Paths]
    BY FactKinds DEF Mirror
  <1>2. Flipped(sidedF, sidedG)
    BY <1>1 DEF Mirror, Flipped, Flip
  <1>3. \A m \in [old : MaybePaths, new : MaybePaths] : pathF(Flip(m)) = Flip(pathF(m))
    BY DEF Flip
  <1>4. CASE sidedF # {}
    <2>1. sidedG # {}
      BY <1>2, <1>4 DEF Flipped
    <2>2. Hints(f) = {pathF(m) : m \in sidedF} /\ Hints(g) = {pathF(m) : m \in sidedG}
      BY <1>4, <2>1 DEF Hints
    <2> HIDE DEF pathF
    <2>3. Flipped(Hints(f), Hints(g))
      <3>1. \A m \in sidedF : m \in [old : MaybePaths, new : MaybePaths]
        BY <1>1
      <3>2. \A m \in sidedG : m \in [old : MaybePaths, new : MaybePaths]
        BY <1>1
      <3> HIDE DEF sidedF, sidedG
      <3>3. QED BY <1>2, <1>3, <2>2, <3>1, <3>2 DEF Flipped
    <2>4. Hints(f) = f.header
      <3>1. Hints(f) # {}
        BY <1>4, <2>2
      <3>2. QED BY <3>1 DEF HeaderAgrees
    <2>5. Flipped(f.header, Hints(g)) /\ Flipped(f.header, g.header)
      BY <2>3, <2>4 DEF Mirror
    <2>6. \A p \in Hints(g) : Flip(Flip(p)) = p
      <3>1. \A m : Flip(Flip(pathF(m))) = pathF(m)
        BY DEF Flip, pathF
      <3>2. QED BY <2>2, <3>1
    <2>7. \A p \in g.header : Flip(Flip(p)) = p
      BY <1>1 DEF Flip
    <2>8. Hints(g) = g.header
      BY <2>5, <2>6, <2>7 DEF Flipped
    <2>9. QED BY <2>8 DEF HeaderAgrees
  <1>5. CASE sidedF = {}
    <2>1. sidedG = {}
      BY <1>2, <1>5 DEF Flipped
    <2>2. /\ Hints(f) = [old : f.rename_old, new : f.rename_new]
          /\ Hints(g) = [old : f.rename_new, new : f.rename_old]
      BY <1>5, <2>1 DEF Hints, Mirror
    <2>3. CASE Hints(f) = {}
      <3>1. Hints(g) = {}
        <4> SUFFICES ASSUME NEW p \in [old : f.rename_new, new : f.rename_old] PROVE FALSE
          BY <2>2
        <4>1. Flip(p) \in [old : f.rename_old, new : f.rename_new]
          BY DEF Flip
        <4>2. QED BY <2>2, <2>3, <4>1
      <3>2. QED BY <3>1 DEF HeaderAgrees
    <2>4. CASE Hints(f) = f.header
      <3>1. \A p \in Hints(g) : Flip(p) \in f.header /\ Flip(Flip(p)) = p
        <4> DEFINE X == f.rename_new
                   Y == f.rename_old
        <4>1. Hints(g) = [old : X, new : Y] /\ f.header = [old : Y, new : X]
          BY <2>2, <2>4
        <4> HIDE DEF X, Y
        <4>2. QED BY <4>1, FlipBack
      <3>2. \A p \in g.header : Flip(p) \in Hints(f) /\ Flip(Flip(p)) = p
        BY <1>1, <2>4, FlipBack DEF Flipped, Mirror
      <3>3. \A p \in g.header : p \in Hints(g)
        <4>1. \A q \in Hints(f) : Flip(q) \in Hints(g)
          BY <2>2 DEF Flip
        <4>2. QED BY <3>2, <4>1
      <3>4. \A p \in Hints(g) : p \in g.header
        BY <3>1 DEF Flipped, Mirror
      <3>5. QED BY <3>3, <3>4 DEF HeaderAgrees
    <2>5. QED BY <2>3, <2>4 DEF HeaderAgrees
  <1>6. QED BY <1>4, <1>5

\* The checks of modes, additions and deletions treat the sides alike.
LEMMA MirrorLifecycle ==
  ASSUME NEW f, NEW g, Mirror(f, g), Stated(f, "header"), LifecycleAgrees(f)
  PROVE  LifecycleAgrees(g)
  <1>1. /\ Stated(g, "new_file") <=> Stated(f, "deleted_file")
        /\ Stated(g, "deleted_file") <=> Stated(f, "new_file")
        /\ Stated(g, "old_mode") <=> Stated(f, "new_mode")
        /\ Stated(g, "new_mode") <=> Stated(f, "old_mode")
        /\ Renamed(g) <=> Renamed(f)
    BY MirrorFacts
  <1>2. g.old_mode = f.new_mode /\ g.new_mode = f.old_mode
    BY DEF Mirror
  <1>3. /\ ~(Stated(f, "new_file") /\ Stated(f, "deleted_file"))
        /\ (Stated(f, "new_file") \/ Stated(f, "deleted_file")) => ~Renamed(f)
        /\ Stated(f, "old_mode") <=> Stated(f, "new_mode")
        /\ Stated(f, "old_mode") =>
              f.old_mode # f.new_mode /\ ~Stated(f, "new_file") /\ ~Stated(f, "deleted_file")
        /\ \A x \in f.index :
              /\ x.mode => /\ ~Stated(f, "old_mode")
                           /\ ~Stated(f, "new_file") /\ ~Stated(f, "deleted_file")
              /\ x.old = "zero" <=> Stated(f, "new_file")
              /\ x.new = "zero" <=> Stated(f, "deleted_file")
    BY DEF LifecycleAgrees
  <1>4. ASSUME NEW y \in g.index
        PROVE  /\ y.mode => /\ ~Stated(g, "old_mode")
                            /\ ~Stated(g, "new_file") /\ ~Stated(g, "deleted_file")
               /\ y.old = "zero" <=> Stated(g, "new_file")
               /\ y.new = "zero" <=> Stated(g, "deleted_file")
    <2>1. PICK x \in f.index : x.old = y.new /\ x.new = y.old /\ x.mode = y.mode
      BY DEF Mirror, IndexFlipped
    <2>2. QED BY <1>1, <1>3, <2>1
  <1>5. QED BY <1>1, <1>2, <1>3, <1>4 DEF LifecycleAgrees

\* The checks of the paths treat the sides alike.
LEMMA MirrorPaths ==
  ASSUME NEW f, NEW g, Mirror(f, g), Stated(f, "header"), PathsAgree(f)
  PROVE  PathsAgree(g)
  <1> DEFINE h == Value(f, "header")
             r == Value(g, "header")
  <1>1. /\ Stated(g, "new_file") <=> Stated(f, "deleted_file")
        /\ Stated(g, "deleted_file") <=> Stated(f, "new_file")
        /\ Stated(g, "rename_old") <=> Stated(f, "rename_new")
        /\ Stated(g, "rename_new") <=> Stated(f, "rename_old")
        /\ Renamed(g) <=> Renamed(f)
        /\ r = Flip(h)
    BY MirrorFacts
  <1> HIDE DEF h, r
  <1>2. g.rename_old = f.rename_new /\ g.rename_new = f.rename_old
    BY DEF Mirror
  <1>3. r.old = h.new /\ r.new = h.old
    BY <1>1 DEF Flip
  <1>4. /\ \A p \in f.rename_old : p = h.old
        /\ \A p \in f.rename_new : p = h.new
        /\ Renamed(f) => (Stated(f, "rename_old") <=> Stated(f, "rename_new"))
        /\ \A b \in f.binary :
              /\ f.marker # {} => f.marker = f.binary
              /\ b.old = Null <=> Stated(f, "new_file")
              /\ b.new = Null <=> Stated(f, "deleted_file")
              /\ b.old \in {h.old, Null} /\ b.new \in {h.new, Null}
        /\ \A m \in f.marker :
              /\ Stated(f, "new_file") => m.old = Null
              /\ Stated(f, "deleted_file") => m.new = Null
              /\ m.old \in {h.old, Null} /\ m.new \in {h.new, Null}
    BY DEF PathsAgree, h
  <1>5. /\ f.marker \subseteq [old : MaybePaths, new : MaybePaths]
        /\ g.marker \subseteq [old : MaybePaths, new : MaybePaths]
        /\ f.binary \subseteq [old : MaybePaths, new : MaybePaths]
        /\ g.binary \subseteq [old : MaybePaths, new : MaybePaths]
    BY FactKinds DEF Mirror
  <1>6. \A p \in [old : MaybePaths, new : MaybePaths] :
           Flip(p).old = p.new /\ Flip(p).new = p.old /\ Flip(Flip(p)) = p
    BY FlipBack
  <1>7. /\ \A p \in g.marker : Flip(p) \in f.marker
        /\ \A p \in f.marker : Flip(p) \in g.marker
        /\ \A p \in g.binary : Flip(p) \in f.binary
        /\ \A p \in f.binary : Flip(p) \in g.binary
    BY DEF Mirror, Flipped
  <1>8. ASSUME NEW b \in g.binary
        PROVE  /\ g.marker # {} => g.marker = g.binary
               /\ b.old = Null <=> Stated(g, "new_file")
               /\ b.new = Null <=> Stated(g, "deleted_file")
               /\ b.old \in {r.old, Null} /\ b.new \in {r.new, Null}
    <2>1. Flip(b) \in f.binary /\ Flip(b).old = b.new /\ Flip(b).new = b.old
      BY <1>5, <1>6, <1>7
    <2>2. /\ b.old = Null <=> Stated(g, "new_file")
          /\ b.new = Null <=> Stated(g, "deleted_file")
          /\ b.old \in {r.old, Null} /\ b.new \in {r.new, Null}
      BY <1>1, <1>3, <1>4, <2>1
    <2>3. ASSUME g.marker # {} PROVE g.marker = g.binary
      <3>1. f.marker # {}
        BY <1>7, <2>3
      <3>2. f.marker = f.binary
        BY <1>4, <2>1, <3>1
      <3>3. \A p \in g.marker : p \in g.binary
        BY <1>5, <1>6, <1>7, <3>2
      <3>4. \A p \in g.binary : p \in g.marker
        BY <1>5, <1>6, <1>7, <3>2
      <3>5. QED BY <3>3, <3>4
    <2>4. QED BY <2>2, <2>3
  <1>9. ASSUME NEW m \in g.marker
        PROVE  /\ Stated(g, "new_file") => m.old = Null
               /\ Stated(g, "deleted_file") => m.new = Null
               /\ m.old \in {r.old, Null} /\ m.new \in {r.new, Null}
    <2>1. Flip(m) \in f.marker /\ Flip(m).old = m.new /\ Flip(m).new = m.old
      BY <1>5, <1>6, <1>7
    <2>2. QED BY <1>1, <1>3, <1>4, <2>1
  <1>10. QED BY <1>1, <1>2, <1>3, <1>4, <1>8, <1>9 DEF PathsAgree, r

\* The checks of the content treat the sides alike.
LEMMA MirrorContent ==
  ASSUME NEW f, NEW g, Mirror(f, g), Stated(f, "header"), NEW there, NEW back,
         there = <<>> <=> back = <<>>, ContentAgrees(f, there), Recognized(f, there)
  PROVE  ContentAgrees(g, back) /\ Recognized(g, back)
  <1>1. /\ Stated(g, "marker") <=> Stated(f, "marker")
        /\ Stated(g, "binary") <=> Stated(f, "binary")
        /\ Stated(g, "index") <=> Stated(f, "index")
        /\ Stated(g, "new_file") <=> Stated(f, "deleted_file")
        /\ Stated(g, "deleted_file") <=> Stated(f, "new_file")
        /\ Stated(g, "old_mode") <=> Stated(f, "new_mode")
        /\ Stated(g, "new_mode") <=> Stated(f, "old_mode")
        /\ Stated(g, "rename_old") <=> Stated(f, "rename_new")
        /\ Stated(g, "rename_new") <=> Stated(f, "rename_old")
        /\ Stated(g, "similarity") <=> Stated(f, "similarity")
    BY MirrorFacts
  <1>2. Recognized(g, back)
    BY <1>1 DEF Recognized, FactNames
  <1>3. g.similarity = f.similarity /\ IndexFlipped(g.index, f.index)
    BY DEF Mirror
  <1>4. ContentAgrees(g, back)
    <2>1. back # <<>> => Stated(g, "marker") /\ ~Stated(g, "binary")
      BY <1>1 DEF ContentAgrees
    <2>2. \A s \in g.similarity :
              /\ s.kind = "similarity" =>
                    /\ Stated(g, "rename_old") /\ Stated(g, "rename_new")
                    /\ s.whole <=> ~(back # <<>> \/ Stated(g, "binary"))
              /\ s.kind = "dissimilarity" =>
                    /\ ~Stated(g, "rename_old") /\ ~Stated(g, "rename_new")
                    /\ back # <<>> \/ Stated(g, "binary")
      BY <1>1, <1>3 DEF ContentAgrees
    <2>3. \A y \in g.index :
             IF back # <<>> \/ Stated(g, "binary") THEN y.old # y.new
             ELSE Stated(g, "new_file") \/ Stated(g, "deleted_file")
      BY <1>1, <1>3 DEF ContentAgrees, IndexFlipped
    <2>4. QED BY <2>1, <2>2, <2>3 DEF ContentAgrees
  <1>5. QED BY <1>2, <1>4

\* A reversed hunk has on either side what the hunk has on the other.
LEMMA ReversedHunk ==
  ASSUME NEW hunks \in Seq(HunkType)
  PROVE  /\ DOMAIN ReversedHunks(hunks) = DOMAIN hunks
         /\ \A k \in DOMAIN hunks :
               LET h == hunks[k]
                   r == ReversedHunks(hunks)[k]
               IN  /\ r.oldStart = h.newStart /\ r.oldCount = h.newCount
                   /\ r.newStart = h.oldStart /\ r.newCount = h.oldCount
                   /\ DOMAIN r.lines = DOMAIN h.lines
                   /\ \A j \in DOMAIN h.lines :
                         /\ r.lines[j].sequence = h.lines[j].sequence
                         /\ r.lines[j].old = h.lines[j].new /\ r.lines[j].new = h.lines[j].old
                         /\ r.lines[j].type = ReversedType[h.lines[j].type]
                   /\ OnSide(r, "old") = OnSide(h, "new") /\ OnSide(r, "new") = OnSide(h, "old")
                   /\ OfType(r, "addition") = OfType(h, "deletion")
                   /\ Complete(h) => Complete(r)
                   /\ LocationsValid(h) => LocationsValid(r)
  <1> DEFINE back == ReversedHunks(hunks)
  <1>1. DOMAIN back = DOMAIN hunks /\ \A k \in DOMAIN hunks : hunks[k] \in HunkType
    BY DEF ReversedHunks
  <1>2. ASSUME NEW k \in DOMAIN hunks
        PROVE  LET h == hunks[k]
                   r == back[k]
               IN  /\ r.oldStart = h.newStart /\ r.oldCount = h.newCount
                   /\ r.newStart = h.oldStart /\ r.newCount = h.oldCount
                   /\ DOMAIN r.lines = DOMAIN h.lines
                   /\ \A j \in DOMAIN h.lines :
                         /\ r.lines[j].sequence = h.lines[j].sequence
                         /\ r.lines[j].old = h.lines[j].new /\ r.lines[j].new = h.lines[j].old
                         /\ r.lines[j].type = ReversedType[h.lines[j].type]
                   /\ OnSide(r, "old") = OnSide(h, "new") /\ OnSide(r, "new") = OnSide(h, "old")
                   /\ OfType(r, "addition") = OfType(h, "deletion")
                   /\ Complete(h) => Complete(r)
                   /\ LocationsValid(h) => LocationsValid(r)
    <2> DEFINE h == hunks[k]
               r == back[k]
               lines == [j \in DOMAIN h.lines |->
                            [h.lines[j] EXCEPT !.type = ReversedType[@],
                                               !.old = h.lines[j].new, !.new = h.lines[j].old]]
    <2>1. r = [oldStart |-> h.newStart, oldCount |-> h.newCount,
               newStart |-> h.oldStart, newCount |-> h.oldCount, lines |-> lines]
      BY DEF ReversedHunks
    <2>2. h \in HunkType /\ \A j \in DOMAIN h.lines : h.lines[j] \in LineType
      BY <1>1, HunkFields
    <2> HIDE DEF h, r
    <2>3. /\ r.oldStart = h.newStart /\ r.oldCount = h.newCount
          /\ r.newStart = h.oldStart /\ r.newCount = h.oldCount
          /\ r.lines = lines
      <3> HIDE DEF lines
      <3>1. QED BY <2>1
    <2>4. DOMAIN r.lines = DOMAIN h.lines
      BY <2>3
    <2>5. \A j \in DOMAIN h.lines :
             /\ r.lines[j].sequence = h.lines[j].sequence
             /\ r.lines[j].old = h.lines[j].new /\ r.lines[j].new = h.lines[j].old
             /\ r.lines[j].type = ReversedType[h.lines[j].type]
      <3> TAKE j \in DOMAIN h.lines
      <3> DEFINE l == h.lines[j]
                 e == [l EXCEPT !.type = ReversedType[@], !.old = l.new, !.new = l.old]
      <3>1. l \in LineType /\ r.lines[j] = e
        BY <2>2, <2>3
      <3> HIDE DEF l, lines
      <3>2. e.sequence = l.sequence /\ e.old = l.new /\ e.new = l.old /\ e.type = ReversedType[l.type]
        BY <3>1 DEF LineType
      <3> HIDE DEF e
      <3>3. QED BY <3>1, <3>2 DEF l
    <2> HIDE DEF lines
    <2>6. \A j \in DOMAIN h.lines : h.lines[j].type \in {"context", "deletion", "addition"}
      BY <2>2, SideFacts DEF LineType
    <2>7. \A j \in DOMAIN h.lines :
             /\ "old" \in Sides[r.lines[j].type] <=> "new" \in Sides[h.lines[j].type]
             /\ "new" \in Sides[r.lines[j].type] <=> "old" \in Sides[h.lines[j].type]
             /\ r.lines[j].type = "addition" <=> h.lines[j].type = "deletion"
      BY <2>5, <2>6, SideFacts DEF ReversedType
    <2>8. OnSide(r, "old") = OnSide(h, "new") /\ OnSide(r, "new") = OnSide(h, "old")
      BY <2>4, <2>7 DEF OnSide
    <2>9. OfType(r, "addition") = OfType(h, "deletion")
      <3>1. {j \in DOMAIN r.lines : r.lines[j].type = "addition"}
               = {j \in DOMAIN h.lines : h.lines[j].type = "deletion"}
        BY <2>4, <2>7
      <3>2. QED BY <3>1 DEF OfType
    <2>10. Complete(h) => Complete(r)
      BY <2>3, <2>8 DEF Complete, Seen
    <2>11. LocationsValid(h) => LocationsValid(r)
      <3> SUFFICES ASSUME LocationsValid(h) PROVE LocationsValid(r)
        OBVIOUS
      <3>1. \A side : OnSide(h, side) \subseteq DOMAIN h.lines
        BY DEF OnSide
      <3>2. \A j \in DOMAIN r.lines : r.lines[j].sequence = j
        BY <2>4, <2>5 DEF LocationsValid
      <3>3. \A j \in OnSide(r, "old") : r.lines[j].old = r.oldStart + Ahead(r, "old", j)
        BY <2>3, <2>5, <2>8, <3>1 DEF LocationsValid, Ahead
      <3>4. \A j \in OnSide(r, "new") : r.lines[j].new = r.newStart + Ahead(r, "new", j)
        BY <2>3, <2>5, <2>8, <3>1 DEF LocationsValid, Ahead
      <3>5. QED BY <3>2, <3>3, <3>4 DEF LocationsValid
    <2>12. QED BY <2>3, <2>4, <2>5, <2>8, <2>9, <2>10, <2>11 DEF h, r
  <1>3. QED BY <1>1, <1>2

\* What is read of the facts and hunks is read of their mirror images, as the
\* mirror image of the file.
LEMMA MirrorFile ==
  ASSUME NEW f, NEW g, Mirror(f, g), Stated(f, "header"), NEW hunks, NEW back
  PROVE  LET there == FileOf(f, hunks)
             other == FileOf(g, back)
         IN  /\ there.hunks = hunks /\ other.hunks = back
             /\ other.old = there.new /\ other.new = there.old
             /\ IsBinary(other) <=> IsBinary(there)
             /\ (there.old # Null \/ there.new # Null) =>
                   other.type = CASE there.type = "added"   -> "deleted"
                                  [] there.type = "deleted" -> "added"
                                  [] OTHER                  -> there.type
  <1> DEFINE pairF == IF Stated(f, "binary") THEN Value(f, "binary")
                      ELSE IF Stated(f, "marker") THEN Value(f, "marker")
                      ELSE Value(f, "header")
             pairG == IF Stated(g, "binary") THEN Value(g, "binary")
                      ELSE IF Stated(g, "marker") THEN Value(g, "marker")
                      ELSE Value(g, "header")
             oldF == IF Stated(f, "new_file") THEN Null ELSE pairF.old
             newF == IF Stated(f, "deleted_file") THEN Null ELSE pairF.new
             oldG == IF Stated(g, "new_file") THEN Null ELSE pairG.old
             newG == IF Stated(g, "deleted_file") THEN Null ELSE pairG.new
             typeF == ChangeType(f, oldF, newF)
             typeG == ChangeType(g, oldG, newG)
  <1>1. /\ FileOf(f, hunks) = [old |-> oldF, new |-> newF, type |-> typeF, hunks |-> hunks]
        /\ FileOf(g, back) = [old |-> oldG, new |-> newG, type |-> typeG, hunks |-> back]
    BY DEF FileOf
  <1>2. /\ Stated(g, "marker") <=> Stated(f, "marker")
        /\ Stated(g, "binary") <=> Stated(f, "binary")
        /\ Stated(g, "new_file") <=> Stated(f, "deleted_file")
        /\ Stated(g, "deleted_file") <=> Stated(f, "new_file")
        /\ Renamed(g) <=> Renamed(f)
    BY MirrorFacts
  <1>3. pairG = Flip(pairF)
    <2>1. /\ Value(g, "header") = Flip(Value(f, "header"))
          /\ Stated(f, "marker") => Value(g, "marker") = Flip(Value(f, "marker"))
          /\ Stated(f, "binary") => Value(g, "binary") = Flip(Value(f, "binary"))
      BY MirrorFacts
    <2>2. QED BY <1>2, <2>1
  <1> HIDE DEF pairF, pairG
  <1>4. pairG.old = pairF.new /\ pairG.new = pairF.old
    BY <1>3 DEF Flip
  <1>5. oldG = newF /\ newG = oldF
    BY <1>2, <1>4
  <1> HIDE DEF oldF, newF, oldG, newG
  <1>6. typeG = "binary" <=> typeF = "binary"
    BY <1>2 DEF ChangeType
  <1>7. (oldF # Null \/ newF # Null) =>
           typeG = CASE typeF = "added"   -> "deleted"
                     [] typeF = "deleted" -> "added"
                     [] OTHER             -> typeF
    <2> SUFFICES ASSUME oldF # Null \/ newF # Null
                 PROVE  typeG = CASE typeF = "added"   -> "deleted"
                                  [] typeF = "deleted" -> "added"
                                  [] OTHER             -> typeF
      OBVIOUS
    <2>1. CASE Stated(f, "binary")
      BY <1>2, <2>1 DEF ChangeType
    <2>2. CASE ~Stated(f, "binary") /\ oldF = Null
      BY <1>2, <1>5, <2>2 DEF ChangeType
    <2>3. CASE ~Stated(f, "binary") /\ oldF # Null /\ newF = Null
      BY <1>2, <1>5, <2>3 DEF ChangeType
    <2>4. CASE ~Stated(f, "binary") /\ oldF # Null /\ newF # Null
      BY <1>2, <1>5, <2>4 DEF ChangeType
    <2>5. QED BY <2>1, <2>2, <2>3, <2>4
  <1> HIDE DEF typeF, typeG
  <1>8. QED BY <1>1, <1>5, <1>6, <1>7 DEF IsBinary

\* If a section is read, then so is its mirror image.
LEMMA MirrorReads ==
  ASSUME NEW f, NEW g, Mirror(f, g), Stated(f, "header"), NEW hunks, NEW back,
         hunks = <<>> <=> back = <<>>,
         \A k \in DOMAIN back : Complete(back[k]) /\ LocationsValid(back[k]),
         Ordered(hunks) => Ordered(back),
         Reads(f, hunks)
  PROVE  Reads(g, back)
  <1> DEFINE there == FileOf(f, hunks)
             other == FileOf(g, back)
  <1>1. HeaderAgrees(g)
    BY MirrorHeaderAgrees DEF Reads
  <1>2. Consistent(g, back)
    BY MirrorLifecycle, MirrorPaths, MirrorContent DEF Reads, Consistent
  <1>3. /\ there.hunks = hunks /\ other.hunks = back
        /\ other.old = there.new /\ other.new = there.old
        /\ IsBinary(other) <=> IsBinary(there)
    BY MirrorFile
  <1>4. FileValid(there)
    BY DEF Reads
  <1> HIDE DEF there, other
  <1>5. FileValid(other)
    BY <1>3, <1>4 DEF FileValid
  <1>6. QED BY <1>1, <1>2, <1>5 DEF Reads, other

\* A diff is read exactly if the reverse diff is, and then as the reverse change,
\* whatever is stated about the file.
THEOREM ReverseIsReverse == Spec => []ReversedIsReversed
  <1>1. PathInv => ReversedIsReversed
    <2> SUFFICES ASSUME PathInv, AtRest PROVE ReversedIsReversed
      BY DEF ReversedIsReversed
    <2> DEFINE f == parser.facts
               g == ReversedFacts(f)
               h == parser.hunks
               back == ReversedHunks(h)
               there == FileOf(f, h)
               other == FileOf(g, back)
    <2>1. f \in FactsType /\ h \in Seq(HunkType) /\ GoodHunks(h) /\ Stated(f, "header")
      BY ParserFields DEF PathInv, ParserOk, AtRest, InSection
    <2> HIDE DEF f, h
    <2>2. Mirror(f, g) /\ Mirror(g, f) /\ Stated(g, "header")
      BY <2>1, ReversedFactsMirror, MirrorIsSymmetric, MirrorFacts
    <2>3. /\ DOMAIN back = DOMAIN h
          /\ \A k \in DOMAIN h :
                /\ back[k].oldStart = h[k].newStart /\ back[k].oldCount = h[k].newCount
                /\ back[k].newStart = h[k].oldStart /\ back[k].newCount = h[k].oldCount
                /\ OfType(back[k], "addition") = OfType(h[k], "deletion")
                /\ Complete(back[k]) /\ LocationsValid(back[k])
                /\ Complete(h[k]) /\ LocationsValid(h[k])
      BY <2>1, ReversedHunk DEF GoodHunks, GoodHunk
    <2>4. Len(h) \in Nat /\ DOMAIN h = 1 .. Len(h)
      BY <2>1
    <2>5. Len(back) = Len(h) /\ (h = <<>> <=> back = <<>>)
      <3>1. DOMAIN ReversedHunks(h) = 1 .. Len(h)
        BY <2>3, <2>4
      <3>2. Len(back) = Len(h)
        BY <2>4, <3>1
      <3>3. h = <<>> <=> DOMAIN h = {}
        BY <2>1
      <3>4. back = <<>> <=> DOMAIN back = {}
        <4> DEFINE V == {back[k] : k \in DOMAIN h}
        <4>1. back = [k \in 1 .. Len(h) |-> back[k]]
          BY <2>4 DEF ReversedHunks
        <4> HIDE DEF back
        <4>2. back \in [1 .. Len(h) -> V]
          BY <2>4, <4>1
        <4>3. back \in Seq(V)
          BY <2>4, <4>2
        <4>4. QED BY <4>3
      <3>5. QED BY <2>3, <3>2, <3>3, <3>4
    <2> HIDE DEF g, back
    <2>6. Ordered(h) <=> Ordered(back)
      <3>1. \A k \in 2 .. Len(h) : k \in DOMAIN h /\ k - 1 \in DOMAIN h
        BY <2>4
      <3>2. QED BY <2>3, <2>5, <3>1 DEF Ordered
    <2>7. Reads(f, h) => Reads(g, back)
      BY <2>1, <2>2, <2>3, <2>5, <2>6, MirrorReads
    <2>8. Reads(g, back) => Reads(f, h)
      BY <2>2, <2>3, <2>5, <2>6, MirrorReads
    <2>9. /\ there.hunks = h /\ other.hunks = back
          /\ other.old = there.new /\ other.new = there.old
          /\ (there.old # Null \/ there.new # Null) =>
                other.type = CASE there.type = "added"   -> "deleted"
                               [] there.type = "deleted" -> "added"
                               [] OTHER                  -> there.type
      BY <2>1, <2>2, MirrorFile
    <2>10. Reads(f, h) => there.old # Null \/ there.new # Null
      BY DEF Reads, FileValid
    <2> HIDE DEF there, other
    <2>11. CountType(other, "addition") = CountType(there, "deletion")
      <3>1. [k \in DOMAIN back |-> OfType(back[k], "addition")]
               = [k \in DOMAIN h |-> OfType(h[k], "deletion")]
        BY <2>3
      <3>2. QED BY <2>9, <3>1 DEF CountType
    <2>12. QED BY <2>7, <2>8, <2>9, <2>10, <2>11 DEF ReversedIsReversed, f, g, h, back, there, other
  <1>2. QED BY <1>1, PathInvariance, PTL
=============================================================================
