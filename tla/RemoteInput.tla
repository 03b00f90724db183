----------------------------- MODULE RemoteInput -----------------------------
(***************************************************************************)
(* Acquisition of a change request from GitHub or GitLab: the metadata     *)
(* with the head, the pages of the diff until there is no next link, for   *)
(* GitHub the raw diff if a file came without its patch, and the commit to *)
(* the security boundary.  Between any two requests the author of the      *)
(* change may push or close it.                                            *)
(***************************************************************************)
EXTENDS SecurityBoundary, Sequences

CONSTANT PagesOf   \* the pages of the diff of each version of the change

ASSUME PagesOfAssumption == PagesOf \in Seq(Nat \ {0}) /\ PagesOf # <<>>

VARIABLES platform,  \* what the platform has: the version that is the head, is it open
          remote     \* the acquisition: its step, what it has read, why it failed

remoteVars == <<platform, remote>>

Idle == [step |-> "idle", provider |-> "none", head |-> 0, page |-> 1,
         files |-> <<>>, code |-> "none"]

RemoteInit ==
    /\ platform = [head |-> 1, open |-> TRUE]
    /\ remote = Idle

-----------------------------------------------------------------------------
(* The platform                                                            *)

Push == /\ platform.open /\ platform.head < Len(PagesOf)
        /\ platform' = [platform EXCEPT !.head = @ + 1]
        /\ UNCHANGED remote

Close == platform.open /\ platform' = [platform EXCEPT !.open = FALSE] /\ UNCHANGED remote

\* A file of a version stands for the files of a page: whole, "folded" without
\* its lines, or "odd", no object at all.
Shapes == {"whole", "folded", "odd"}

File(version, page, shape) == [version |-> version, page |-> page, shape |-> shape]

WholeDiff(version) == [k \in 1 .. PagesOf[version] |-> File(version, k, "whole")]

\* What a page has: an overflow leaves out what is on it, and behind the last
\* page there is nothing.
OnPage(page, answer) ==
    IF page > PagesOf[platform.head] \/ answer = "overflow" THEN <<>>
    ELSE <<File(platform.head, page, IF answer \in Shapes THEN answer ELSE "whole")>>

HasNext(page) == page < PagesOf[platform.head]

-----------------------------------------------------------------------------
(* Requests                                                                *)

\* What _request makes of an answer it does not return.
FaultCode == [unavailable  |-> "provider_unavailable",
              redirect     |-> "provider_redirect_rejected",
              unauthorized |-> "credential_invalid",
              forbidden    |-> "permission_denied",
              missing      |-> "change_request_not_found",
              refused      |-> "provider_request_failed",
              large        |-> "input_too_large"]

Faults == DOMAIN FaultCode

\* GitHub's adapter has one handler for most of what it cannot read; GitLab's
\* lets such an error pass to its caller.
Unreadable == IF remote.provider = "github" THEN "provider_response_invalid" ELSE "uncaught"

Fail(code) == remote' = [remote EXCEPT !.step = "failed", !.code = code]

\* parse_url and the check of the host; another adapter has no acquire_url.
AcquireUrl(provider, valid) ==
    /\ remote.step = "idle"
    /\ IF provider = "plain" THEN Fail("url_provider_not_configured")
       ELSE IF ~valid THEN Fail("invalid_source_url")
       ELSE remote' = [remote EXCEPT !.step = "metadata", !.provider = provider]
    /\ UNCHANGED platform

MetadataAnswers == Faults \cup {"ok", "garbled", "no_object", "without_versions"}

\* GitLab's versions are read only after the pages.  Neither adapter catches the
\* AttributeError of metadata.get.
ReadMetadata(answer) ==
    /\ remote.step = "metadata"
    /\ IF answer \in Faults THEN Fail(FaultCode[answer])
       ELSE IF answer = "garbled" THEN Fail(Unreadable)
       ELSE IF answer = "no_object" THEN Fail("uncaught")
       ELSE IF ~platform.open THEN Fail("change_request_closed")
       ELSE IF answer = "without_versions" /\ remote.provider = "github" THEN Fail(Unreadable)
       ELSE remote' = [remote EXCEPT !.step = "pages",
                                     !.head = IF answer = "ok" THEN platform.head ELSE 0]
    /\ UNCHANGED platform

PageAnswers == Faults \cup {"ok", "wrapped", "overflow", "folded", "odd", "no_list", "garbled",
                          "foreign_link"}

\* Mutant: a wrapped list of files is taken although it overflowed.
PageFaultButOverflow(answer) ==
    IF answer \in Faults THEN FaultCode[answer]
    ELSE IF answer = "garbled" THEN Unreadable
    ELSE IF answer = "no_list" THEN "input_incomplete"
    ELSE IF answer = "foreign_link" /\ HasNext(remote.page) THEN "provider_response_invalid"
    ELSE "none"

\* An answer that is a page of files; parse_link_next looks at its link.
PageFault(answer) ==
    IF answer \in Faults THEN FaultCode[answer]
    ELSE IF answer = "garbled" THEN Unreadable
    ELSE IF remote.provider = "github" /\ answer \in {"wrapped", "overflow", "no_list"}
    THEN Unreadable
    ELSE IF answer \in {"overflow", "no_list"} THEN "input_incomplete"
    ELSE IF answer = "foreign_link" /\ HasNext(remote.page) THEN "provider_response_invalid"
    ELSE "none"

Whole(files) == \A k \in DOMAIN files : files[k].shape = "whole"

\* The files are looked at in their order, up to the first that is not whole.
FirstFlawIs(files, shape) ==
    \E k \in DOMAIN files : /\ files[k].shape = shape
                            /\ \A j \in 1 .. k - 1 : files[j].shape = "whole"

\* GitHub asks for the raw diff if a file came without its patch.
ReadPage(answer) ==
    /\ remote.step = "pages"
    /\ LET files == remote.files \o OnPage(remote.page, answer)
           flaw(shape) == /\ remote.provider = "github" /\ ~HasNext(remote.page)
                          /\ FirstFlawIs(files, shape)
       IN  IF PageFault(answer) # "none" THEN Fail(PageFault(answer))
           ELSE IF flaw("odd") THEN Fail("uncaught")
           ELSE remote' = [remote EXCEPT
                    !.files = files,
                    !.page  = @ + 1,
                    !.step  = IF HasNext(remote.page) THEN "pages"
                              ELSE IF flaw("folded") THEN "diff"
                              ELSE "commit"]
    /\ UNCHANGED platform

\* GitHub: the raw diff in place of all pages.
ReadDiff(answer) ==
    /\ remote.step = "diff"
    /\ IF answer \in Faults THEN Fail(FaultCode[answer])
       ELSE IF answer = "garbled" THEN Fail(Unreadable)
       ELSE remote' = [remote EXCEPT !.step = "commit", !.files = WholeDiff(platform.head)]
    /\ UNCHANGED platform

\* The diff is put together and committed under the head of the metadata; the
\* reference that _commit returns resolves.
CommitFault(large, scan) ==
    IF remote.head = 0 THEN "uncaught"
    ELSE IF FirstFlawIs(remote.files, "odd") THEN "uncaught"
    ELSE IF ~Whole(remote.files) THEN "input_incomplete"
    ELSE IF large THEN "input_too_large"
    ELSE IF Decision(scan) \notin Readable THEN "security_boundary_failed"
    ELSE "none"

Commit(large, scan) ==
    /\ remote.step = "commit"
    /\ IF CommitFault(large, scan) # "none" THEN Fail(CommitFault(large, scan))
       ELSE remote' = [remote EXCEPT !.step = "committed"]
    /\ UNCHANGED platform

RemoteNext ==
    \/ Push
    \/ Close
    \/ \E provider \in {"github", "gitlab", "plain"}, valid \in BOOLEAN : AcquireUrl(provider, valid)
    \/ \E answer \in MetadataAnswers : ReadMetadata(answer)
    \/ \E answer \in PageAnswers : ReadPage(answer)
    \/ \E answer \in Faults \cup {"ok", "garbled"} : ReadDiff(answer)
    \/ \E large \in BOOLEAN, scan \in Scans : Commit(large, scan)

-----------------------------------------------------------------------------
(* Properties                                                              *)

\* What is committed under a head is the whole diff of that head, every page
\* once and in order with all its lines, whichever of the answers above came on
\* the way - as long as the head is still the head of the request.
AcquiredIsWhole ==
    (remote.step = "committed" /\ platform.head = remote.head) =>
        remote.files = WholeDiff(remote.head)

\* No line of another version is committed under a head.  The code does not
\* have this property: the head is read once, before the pages, and a push
\* between two requests goes unnoticed.
VersionIsFixed ==
    remote.step = "committed" =>
        \A k \in DOMAIN remote.files : remote.files[k].version = remote.head
=============================================================================
