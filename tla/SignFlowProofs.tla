--------------------------- MODULE SignFlowProofs ---------------------------
(***************************************************************************)
(* The evidence of a signature: theorems about SignFlow for every set of   *)
(* documents, submissions and calls and every value of the limits.         *)
(*                                                                         *)
(* Nine actions touch what the evidence depends on; every other step is    *)
(* "quiet".  The proofs classify the steps once (StepKinds) and then treat *)
(* quiet steps together and the nine others one by one.                    *)
(***************************************************************************)
EXTENDS SignFlowTypes, FiniteSetTheorems

\* Steps at which a call holds a promise of EvidenceInv or of the attempt count.
Guarded == Working \cup {"submit.image", "verify.request"}
Watched == Guarded \cup {"verify.wrong"}

\* Every call that is at a step of S after the transition was there before it.
CallsKeep(S) == \A c \in Calls : call'[c] = call[c] \/ call'[c].step \notin S

DataQuiet ==
    /\ UNCHANGED <<sig, images, pdfs>>
    /\ \A d \in Docs :
          /\ doc'[d].signedFile = doc[d].signedFile
          /\ doc'[d].status = "signed" => doc[d].status = "signed"
          /\ req'[d].status = "signed" => req[d].status = "signed"
          /\ req'[d].otpVerified = req[d].otpVerified
          /\ audit[d] \subseteq audit'[d]
          /\ mail[d].codes \subseteq mail'[d].codes

\* No wrong code is counted.
NotCounted == \A d \in Docs : req'[d].otpAttempts \in {0, req[d].otpAttempts}

Quiet == DataQuiet /\ NotCounted /\ CallsKeep(Watched)

-----------------------------------------------------------------------------
(* The quiet actions.                                                      *)

LEMMA BeginQuiet ==
  ASSUME CallTypeOK, NEW c \in Calls, NEW d, NEW step, step \notin Watched,
         Begin(c, d, step)
  PROVE  CallsKeep(Watched)
  BY DEF CallTypeOK, CallsKeep, Begin, IdleCall, Call

LEMMA GotoQuiet ==
  ASSUME CallTypeOK, NEW c \in Calls, NEW step, step \notin Watched, Goto(c, step)
  PROVE  CallsKeep(Watched)
  BY DEF CallTypeOK, CallsKeep, Goto, Call

LEMMA ReturnQuiet ==
  ASSUME CallTypeOK, NEW c \in Calls, Return(c)
  PROVE  CallsKeep(Watched)
  BY DEF CallTypeOK, CallsKeep, Return, IdleCall, Watched, Guarded, Working

LEMMA UploadQuiet ==
  ASSUME DataTypeOK, CallTypeOK, NEW c \in Calls, NEW d \in Docs,
         Upload(c, d)
  PROVE  Quiet
<1>1. CallsKeep(Watched)
  BY BeginQuiet DEF Upload, NewDocument, Watched, Guarded, Working
<1>2. DataQuiet /\ NotCounted
  BY DEF DataQuiet, NotCounted, Upload, NewDocument, At, rows, files,
         DataTypeOK, CallTypeOK, DocRow
<1> QED
  BY <1>1, <1>2 DEF Quiet

LEMMA GenerateFromTemplateQuiet ==
  ASSUME DataTypeOK, CallTypeOK, NEW c \in Calls, NEW d \in Docs,
         GenerateFromTemplate(c, d)
  PROVE  Quiet
<1>1. CallsKeep(Watched)
  BY BeginQuiet DEF GenerateFromTemplate, NewDocument, Watched, Guarded, Working
<1>2. DataQuiet /\ NotCounted
  BY DEF DataQuiet, NotCounted, GenerateFromTemplate, NewDocument, At, rows,
         files, DataTypeOK, CallTypeOK, DocRow
<1> QED
  BY <1>1, <1>2 DEF Quiet

LEMMA TenantReadQuiet ==
  ASSUME DataTypeOK, CallTypeOK, NEW c \in Calls, NEW d \in Docs,
         TenantRead(c, d)
  PROVE  Quiet
<1>1. CallsKeep(Watched)
  BY BeginQuiet DEF TenantRead, Watched, Guarded, Working
<1>2. DataQuiet /\ NotCounted
  BY DEF DataQuiet, NotCounted, TenantRead, At, rows, files, DataTypeOK,
         CallTypeOK
<1> QED
  BY <1>1, <1>2 DEF Quiet

LEMMA CreateReadQuiet ==
  ASSUME DataTypeOK, CallTypeOK, NEW c \in Calls, NEW d \in Docs,
         CreateRead(c, d)
  PROVE  Quiet
<1>1. CallsKeep(Watched)
  BY BeginQuiet DEF CreateRead, Watched, Guarded, Working
<1>2. DataQuiet /\ NotCounted
  BY DEF DataQuiet, NotCounted, CreateRead, At, rows, files, DataTypeOK,
         CallTypeOK
<1> QED
  BY <1>1, <1>2 DEF Quiet

LEMMA CancelReadQuiet ==
  ASSUME DataTypeOK, CallTypeOK, NEW c \in Calls, NEW d \in Docs,
         CancelRead(c, d)
  PROVE  Quiet
<1>1. CallsKeep(Watched)
  BY BeginQuiet DEF CancelRead, Watched, Guarded, Working
<1>2. DataQuiet /\ NotCounted
  BY DEF DataQuiet, NotCounted, CancelRead, At, rows, files, DataTypeOK,
         CallTypeOK
<1> QED
  BY <1>1, <1>2 DEF Quiet

LEMMA SendOtpReadQuiet ==
  ASSUME DataTypeOK, CallTypeOK, NEW c \in Calls, NEW d \in Docs,
         SendOtpRead(c, d)
  PROVE  Quiet
<1>1. CallsKeep(Watched)
  BY BeginQuiet DEF SendOtpRead, Watched, Guarded, Working
<1>2. DataQuiet /\ NotCounted
  BY DEF DataQuiet, NotCounted, SendOtpRead, At, rows, files, DataTypeOK,
         CallTypeOK
<1> QED
  BY <1>1, <1>2 DEF Quiet

LEMMA ViewReadQuiet ==
  ASSUME DataTypeOK, CallTypeOK, NEW c \in Calls, NEW d \in Docs,
         ViewRead(c, d)
  PROVE  Quiet
<1>1. CallsKeep(Watched)
  BY BeginQuiet DEF ViewRead, Watched, Guarded, Working
<1>2. DataQuiet /\ NotCounted
  BY DEF DataQuiet, NotCounted, ViewRead, At, rows, files, DataTypeOK,
         CallTypeOK
<1> QED
  BY <1>1, <1>2 DEF Quiet

LEMMA UploadAuditQuiet ==
  ASSUME DataTypeOK, CallTypeOK, NEW c \in Calls,
         UploadAudit(c)
  PROVE  Quiet
<1>1. CallsKeep(Watched)
  BY ReturnQuiet DEF UploadAudit, AuditStep, Watched, Guarded, Working
<1>2. DataQuiet /\ NotCounted
  BY DEF DataQuiet, NotCounted, UploadAudit, AuditStep, RecordAudit, At,
         rows, files, DataTypeOK, CallTypeOK
<1> QED
  BY <1>1, <1>2 DEF Quiet

LEMMA GenerateAuditQuiet ==
  ASSUME DataTypeOK, CallTypeOK, NEW c \in Calls,
         GenerateAudit(c)
  PROVE  Quiet
<1>1. CallsKeep(Watched)
  BY ReturnQuiet DEF GenerateAudit, AuditStep, Watched, Guarded, Working
<1>2. DataQuiet /\ NotCounted
  BY DEF DataQuiet, NotCounted, GenerateAudit, AuditStep, RecordAudit, At,
         rows, files, DataTypeOK, CallTypeOK
<1> QED
  BY <1>1, <1>2 DEF Quiet

LEMMA TenantReadAuditQuiet ==
  ASSUME DataTypeOK, CallTypeOK, NEW c \in Calls,
         TenantReadAudit(c)
  PROVE  Quiet
<1>1. CallsKeep(Watched)
  BY ReturnQuiet DEF TenantReadAudit, AuditStep, Watched, Guarded, Working
<1>2. DataQuiet /\ NotCounted
  BY DEF DataQuiet, NotCounted, TenantReadAudit, AuditStep, RecordAudit, At,
         rows, files, DataTypeOK, CallTypeOK
<1> QED
  BY <1>1, <1>2 DEF Quiet

LEMMA CreateAuditQuiet ==
  ASSUME DataTypeOK, CallTypeOK, NEW c \in Calls,
         CreateAudit(c)
  PROVE  Quiet
<1>1. CallsKeep(Watched)
  BY GotoQuiet DEF CreateAudit, AuditStep, Watched, Guarded, Working
<1>2. DataQuiet /\ NotCounted
  BY DEF DataQuiet, NotCounted, CreateAudit, AuditStep, RecordAudit, At,
         rows, files, DataTypeOK, CallTypeOK
<1> QED
  BY <1>1, <1>2 DEF Quiet

LEMMA CreateMailQuiet ==
  ASSUME DataTypeOK, CallTypeOK, NEW c \in Calls,
         CreateMail(c)
  PROVE  Quiet
<1>1. CallsKeep(Watched)
  BY GotoQuiet DEF CreateMail, Watched, Guarded, Working
<1>2. DataQuiet /\ NotCounted
  BY DEF DataQuiet, NotCounted, CreateMail, At, rows, files, DataTypeOK,
         CallTypeOK, Mail
<1> QED
  BY <1>1, <1>2 DEF Quiet

LEMMA CreateMailedAuditQuiet ==
  ASSUME DataTypeOK, CallTypeOK, NEW c \in Calls,
         CreateMailedAudit(c)
  PROVE  Quiet
<1>1. CallsKeep(Watched)
  BY GotoQuiet DEF CreateMailedAudit, AuditStep, Watched, Guarded, Working
<1>2. DataQuiet /\ NotCounted
  BY DEF DataQuiet, NotCounted, CreateMailedAudit, AuditStep, RecordAudit,
         At, rows, files, DataTypeOK, CallTypeOK
<1> QED
  BY <1>1, <1>2 DEF Quiet

LEMMA CreateMailFailedAuditQuiet ==
  ASSUME DataTypeOK, CallTypeOK, NEW c \in Calls,
         CreateMailFailedAudit(c)
  PROVE  Quiet
<1>1. CallsKeep(Watched)
  BY GotoQuiet DEF CreateMailFailedAudit, AuditStep, Watched, Guarded, Working
<1>2. DataQuiet /\ NotCounted
  BY DEF DataQuiet, NotCounted, CreateMailFailedAudit, AuditStep,
         RecordAudit, At, rows, files, DataTypeOK, CallTypeOK
<1> QED
  BY <1>1, <1>2 DEF Quiet

LEMMA CancelCommitQuiet ==
  ASSUME DataTypeOK, CallTypeOK, NEW c \in Calls,
         CancelCommit(c)
  PROVE  Quiet
<1>1. CallsKeep(Watched)
  BY GotoQuiet DEF CancelCommit, Watched, Guarded, Working
<1>2. DataQuiet /\ NotCounted
  BY DEF DataQuiet, NotCounted, CancelCommit, At, rows, files, DataTypeOK,
         CallTypeOK, DocRow, ReqRow
<1> QED
  BY <1>1, <1>2 DEF Quiet

LEMMA CancelAuditQuiet ==
  ASSUME DataTypeOK, CallTypeOK, NEW c \in Calls,
         CancelAudit(c)
  PROVE  Quiet
<1>1. CallsKeep(Watched)
  BY ReturnQuiet DEF CancelAudit, AuditStep, Watched, Guarded, Working
<1>2. DataQuiet /\ NotCounted
  BY DEF DataQuiet, NotCounted, CancelAudit, AuditStep, RecordAudit, At,
         rows, files, DataTypeOK, CallTypeOK
<1> QED
  BY <1>1, <1>2 DEF Quiet

LEMMA PreviewAuditQuiet ==
  ASSUME DataTypeOK, CallTypeOK, NEW c \in Calls,
         PreviewAudit(c)
  PROVE  Quiet
<1>1. CallsKeep(Watched)
  BY GotoQuiet, ReturnQuiet DEF PreviewAudit, AuditStep, Watched, Guarded, Working
<1>2. DataQuiet /\ NotCounted
  BY DEF DataQuiet, NotCounted, PreviewAudit, AuditStep, RecordAudit, At,
         rows, files, DataTypeOK, CallTypeOK
<1> QED
  BY <1>1, <1>2 DEF Quiet

LEMMA PreviewRequestQuiet ==
  ASSUME DataTypeOK, CallTypeOK, NEW c \in Calls,
         PreviewRequest(c)
  PROVE  Quiet
<1>1. CallsKeep(Watched)
  BY GotoQuiet DEF PreviewRequest, Watched, Guarded, Working
<1>2. DataQuiet /\ NotCounted
  BY DEF DataQuiet, NotCounted, PreviewRequest, At, rows, files, DataTypeOK,
         CallTypeOK, ReqRow
<1> QED
  BY <1>1, <1>2 DEF Quiet

LEMMA PreviewDocumentQuiet ==
  ASSUME DataTypeOK, CallTypeOK, NEW c \in Calls,
         PreviewDocument(c)
  PROVE  Quiet
<1>1. CallsKeep(Watched)
  BY ReturnQuiet DEF PreviewDocument, Watched, Guarded, Working
<1>2. DataQuiet /\ NotCounted
  BY DEF DataQuiet, NotCounted, PreviewDocument, At, rows, files,
         DataTypeOK, CallTypeOK, DocRow
<1> QED
  BY <1>1, <1>2 DEF Quiet

LEMMA SendOtpMailQuiet ==
  ASSUME DataTypeOK, CallTypeOK, NEW c \in Calls,
         SendOtpMail(c)
  PROVE  Quiet
<1>1. CallsKeep(Watched)
  BY GotoQuiet DEF SendOtpMail, Watched, Guarded, Working
<1>2. DataQuiet /\ NotCounted
  BY DEF DataQuiet, NotCounted, SendOtpMail, At, rows, files, DataTypeOK,
         CallTypeOK, Mail
<1> QED
  BY <1>1, <1>2 DEF Quiet

LEMMA SendOtpAuditQuiet ==
  ASSUME DataTypeOK, CallTypeOK, NEW c \in Calls,
         SendOtpAudit(c)
  PROVE  Quiet
<1>1. CallsKeep(Watched)
  BY ReturnQuiet DEF SendOtpAudit, AuditStep, Watched, Guarded, Working
<1>2. DataQuiet /\ NotCounted
  BY DEF DataQuiet, NotCounted, SendOtpAudit, AuditStep, RecordAudit, At,
         rows, files, DataTypeOK, CallTypeOK
<1> QED
  BY <1>1, <1>2 DEF Quiet

LEMMA VerifyWrongAuditQuiet ==
  ASSUME DataTypeOK, CallTypeOK, NEW c \in Calls,
         VerifyWrongAudit(c)
  PROVE  Quiet
<1>1. CallsKeep(Watched)
  BY ReturnQuiet DEF VerifyWrongAudit, AuditStep, Watched, Guarded, Working
<1>2. DataQuiet /\ NotCounted
  BY DEF DataQuiet, NotCounted, VerifyWrongAudit, AuditStep, RecordAudit,
         At, rows, files, DataTypeOK, CallTypeOK
<1> QED
  BY <1>1, <1>2 DEF Quiet

LEMMA VerifyDocumentQuiet ==
  ASSUME DataTypeOK, CallTypeOK, NEW c \in Calls,
         VerifyDocument(c)
  PROVE  Quiet
<1>1. CallsKeep(Watched)
  BY GotoQuiet DEF VerifyDocument, Watched, Guarded, Working
<1>2. DataQuiet /\ NotCounted
  BY DEF DataQuiet, NotCounted, VerifyDocument, At, rows, files, DataTypeOK,
         CallTypeOK, DocRow
<1> QED
  BY <1>1, <1>2 DEF Quiet

LEMMA VerifyAuditQuiet ==
  ASSUME DataTypeOK, CallTypeOK, NEW c \in Calls,
         VerifyAudit(c)
  PROVE  Quiet
<1>1. CallsKeep(Watched)
  BY ReturnQuiet DEF VerifyAudit, AuditStep, Watched, Guarded, Working
<1>2. DataQuiet /\ NotCounted
  BY DEF DataQuiet, NotCounted, VerifyAudit, AuditStep, RecordAudit, At,
         rows, files, DataTypeOK, CallTypeOK
<1> QED
  BY <1>1, <1>2 DEF Quiet

LEMMA ViewAuditQuiet ==
  ASSUME DataTypeOK, CallTypeOK, NEW c \in Calls,
         ViewAudit(c)
  PROVE  Quiet
<1>1. CallsKeep(Watched)
  BY ReturnQuiet DEF ViewAudit, AuditStep, Watched, Guarded, Working
<1>2. DataQuiet /\ NotCounted
  BY DEF DataQuiet, NotCounted, ViewAudit, AuditStep, RecordAudit, At, rows,
         files, DataTypeOK, CallTypeOK
<1> QED
  BY <1>1, <1>2 DEF Quiet

LEMMA SubmitSignedAuditQuiet ==
  ASSUME DataTypeOK, CallTypeOK, NEW c \in Calls,
         SubmitSignedAudit(c)
  PROVE  Quiet
<1>1. CallsKeep(Watched)
  BY GotoQuiet DEF SubmitSignedAudit, AuditStep, Watched, Guarded, Working
<1>2. DataQuiet /\ NotCounted
  BY DEF DataQuiet, NotCounted, SubmitSignedAudit, AuditStep, RecordAudit,
         At, rows, files, DataTypeOK, CallTypeOK
<1> QED
  BY <1>1, <1>2 DEF Quiet

LEMMA SubmitGeneratedAuditQuiet ==
  ASSUME DataTypeOK, CallTypeOK, NEW c \in Calls,
         SubmitGeneratedAudit(c)
  PROVE  Quiet
<1>1. CallsKeep(Watched)
  BY ReturnQuiet DEF SubmitGeneratedAudit, AuditStep, Watched, Guarded, Working
<1>2. DataQuiet /\ NotCounted
  BY DEF DataQuiet, NotCounted, SubmitGeneratedAudit, AuditStep,
         RecordAudit, At, rows, files, DataTypeOK, CallTypeOK
<1> QED
  BY <1>1, <1>2 DEF Quiet

LEMMA FailQuiet ==
  ASSUME DataTypeOK, CallTypeOK, NEW c \in Calls,
         Fail(c)
  PROVE  Quiet
<1>1. CallsKeep(Watched)
  BY ReturnQuiet DEF Fail, Watched, Guarded, Working
<1>2. DataQuiet /\ NotCounted
  BY DEF DataQuiet, NotCounted, Fail, At, rows, files, DataTypeOK, CallTypeOK
<1> QED
  BY <1>1, <1>2 DEF Quiet

LEMMA PreviewReadQuiet ==
  ASSUME DataTypeOK, CallTypeOK, NEW c \in Calls, NEW d \in Docs, PreviewRead(c, d)
  PROVE  Quiet
<1>1. CallsKeep(Watched)
  <2>1. \A b \in Calls : b # c => call'[b] = call[b]
    BY DEF PreviewRead, CallTypeOK
  <2>2. call'[c].step = "preview.audit"
    BY DEF PreviewRead, CallTypeOK, IdleCall
  <2> QED
    BY <2>1, <2>2 DEF CallsKeep, Watched, Guarded, Working
<1> QED
  BY <1>1 DEF Quiet, DataQuiet, NotCounted, PreviewRead, rows, files

LEMMA CreateCommitQuiet ==
  ASSUME DataTypeOK, CallTypeOK, NEW c \in Calls, CreateCommit(c)
  PROVE  Quiet
<1>1. CallsKeep(Watched)
  BY GotoQuiet, ReturnQuiet DEF CreateCommit, Watched, Guarded, Working
<1>2. call[c].doc \in Docs
  BY DEF CreateCommit, At, CallTypeOK
<1>3. UNCHANGED <<sig, images, pdfs, audit, mail>>
  BY DEF CreateCommit, files
<1>4. CASE UNCHANGED <<doc, req>>
  BY <1>1, <1>3, <1>4 DEF Quiet, DataQuiet, NotCounted
<1>5. CASE /\ req' = [req EXCEPT ![call[c].doc].status = "sent"]
           /\ doc' = [doc EXCEPT ![call[c].doc].status = "sent"]
  <2>1. \A d \in Docs : /\ doc'[d].signedFile = doc[d].signedFile
                        /\ doc'[d].status = "signed" => doc[d].status = "signed"
    BY <1>2, <1>5 DEF DataTypeOK, DocRow
  <2>2. \A d \in Docs : /\ req'[d].otpVerified = req[d].otpVerified
                        /\ req'[d].otpAttempts = req[d].otpAttempts
                        /\ req'[d].status = "signed" => req[d].status = "signed"
    BY <1>2, <1>5 DEF DataTypeOK, ReqRow
  <2> QED
    BY <1>1, <1>3, <2>1, <2>2 DEF Quiet, DataQuiet, NotCounted
<1> QED
  BY <1>4, <1>5 DEF CreateCommit

LEMMA CreateNotifyQuiet ==
  ASSUME DataTypeOK, CallTypeOK, NEW c \in Calls, CreateNotify(c)
  PROVE  Quiet
<1>1. CallsKeep(Watched)
  BY ReturnQuiet DEF CreateNotify
<1>2. call[c].doc \in Docs
  BY DEF CreateNotify, At, CallTypeOK
<1>3. UNCHANGED <<doc, req, sig, images, pdfs, audit>>
  BY DEF CreateNotify, rows, files
<1>4. \A d \in Docs : mail[d].codes \subseteq mail'[d].codes
  <2>1. mail[call[c].doc] \in Mail
    BY <1>2 DEF DataTypeOK
  <2>2. /\ mail'[call[c].doc].codes = mail[call[c].doc].codes
        /\ \A d \in Docs : d # call[c].doc => mail'[d] = mail[d]
    <3>1. CASE mail' = [mail EXCEPT ![call[c].doc].link = TRUE]
      BY <1>2, <2>1, <3>1 DEF DataTypeOK, Mail
    <3>2. CASE mail' = [mail EXCEPT ![call[c].doc] =
                           [@ EXCEPT !.link = TRUE, !.notified = TRUE]]
      BY <1>2, <2>1, <3>2 DEF DataTypeOK, Mail
    <3> QED
      BY <3>1, <3>2 DEF CreateNotify
  <2> QED
    BY <2>2
<1> QED
  BY <1>1, <1>3, <1>4 DEF Quiet, DataQuiet, NotCounted

LEMMA SendOtpStoreQuiet ==
  ASSUME DataTypeOK, CallTypeOK, NEW c \in Calls, SendOtpStore(c)
  PROVE  Quiet
<1>1. CallsKeep(Watched)
  <2>1. \A b \in Calls : b # c => call'[b] = call[b]
    BY DEF SendOtpStore, CallTypeOK
  <2>2. call'[c].step = "otp.mail"
    <3>1. call[c] \in Call
      BY DEF CallTypeOK
    <3> QED
      BY <3>1 DEF SendOtpStore, CallTypeOK, Call
  <2> QED
    BY <2>1, <2>2 DEF CallsKeep, Watched, Guarded, Working
<1> QED
  BY <1>1 DEF Quiet, DataQuiet, NotCounted, SendOtpStore, files, DataTypeOK, ReqRow, At, CallTypeOK

LEMMA TimeQuiet ==
  ASSUME NEW d \in Docs, LinkLapses(d) \/ OtpAges(d)
  PROVE  Quiet
  BY DEF LinkLapses, OtpAges, Quiet, DataQuiet, NotCounted, CallsKeep, rows,
         files

\* A step is quiet or one of the nine that matter, or counts a wrong code.
LEMMA StepKinds ==
  ASSUME DataTypeOK, CallTypeOK, [Next]_vars
  PROVE  \/ Quiet
         \/ \E c \in Calls : \E d \in Docs : VerifyOtpRead(c, d) \/ SubmitRead(c, d)
         \/ \E c \in Calls : \/ VerifyWrong(c) \/ VerifyRequest(c)
                             \/ SubmitImage(c) \/ SubmitDrawn(c) \/ SubmitConsent(c)
                             \/ SubmitTrail(c) \/ SubmitPdf(c) \/ SubmitCommit(c)
<1>1. CASE UNCHANGED vars
  BY <1>1 DEF vars, Quiet, DataQuiet, NotCounted, CallsKeep
<1>2. ASSUME NEW c \in Calls, DocumentStep(c) PROVE Quiet
  BY <1>2, UploadQuiet, GenerateFromTemplateQuiet, TenantReadQuiet,
     UploadAuditQuiet, GenerateAuditQuiet, TenantReadAuditQuiet DEF DocumentStep
<1>3. ASSUME NEW c \in Calls, RequestStep(c) PROVE Quiet
  BY <1>3, CreateReadQuiet, CancelReadQuiet, CreateCommitQuiet, CreateAuditQuiet,
     CreateMailQuiet, CreateMailedAuditQuiet, CreateMailFailedAuditQuiet,
     CreateNotifyQuiet, CancelCommitQuiet, CancelAuditQuiet DEF RequestStep
<1>4. ASSUME NEW c \in Calls, SignerStep(c)
      PROVE  \/ Quiet \/ \E d \in Docs : VerifyOtpRead(c, d)
             \/ VerifyWrong(c) \/ VerifyRequest(c)
  BY <1>4, PreviewReadQuiet, SendOtpReadQuiet, ViewReadQuiet, PreviewAuditQuiet,
     PreviewRequestQuiet, PreviewDocumentQuiet, SendOtpStoreQuiet, SendOtpMailQuiet,
     SendOtpAuditQuiet, VerifyWrongAuditQuiet, VerifyDocumentQuiet,
     VerifyAuditQuiet, ViewAuditQuiet DEF SignerStep
<1>5. ASSUME NEW c \in Calls, SubmitStep(c)
      PROVE  \/ Quiet \/ \E d \in Docs : SubmitRead(c, d)
             \/ SubmitImage(c) \/ SubmitDrawn(c) \/ SubmitConsent(c)
             \/ SubmitTrail(c) \/ SubmitPdf(c) \/ SubmitCommit(c)
  BY <1>5, SubmitSignedAuditQuiet, SubmitGeneratedAuditQuiet DEF SubmitStep
<1>6. ASSUME NEW c \in Calls, Fail(c) PROVE Quiet
  BY <1>6, FailQuiet
<1>7. ASSUME NEW d \in Docs, LinkLapses(d) \/ OtpAges(d) PROVE Quiet
  BY <1>7, TimeQuiet
<1>8. CASE Next
  <2>1. CASE \E c \in Calls : DocumentStep(c) \/ RequestStep(c) \/ Fail(c)
    BY <2>1, <1>2, <1>3, <1>6
  <2>2. CASE \E c \in Calls : SignerStep(c)
    BY <2>2, <1>4
  <2>3. CASE \E c \in Calls : SubmitStep(c)
    BY <2>3, <1>5
  <2>4. CASE \E d \in Docs : LinkLapses(d) \/ OtpAges(d)
    BY <2>4, <1>7
  <2> QED
    BY <1>8, <2>1, <2>2, <2>3, <2>4 DEF Next
<1> QED
  BY <1>1, <1>8

-----------------------------------------------------------------------------
(* The evidence invariant, action by action.                               *)

LEMMA QuietKeeps ==
  ASSUME DataTypeOK, CallTypeOK, EvidenceInv, DataQuiet, CallsKeep(Guarded)
  PROVE  EvidenceInv'
<1>1. \A c \in Calls : call'[c].step \in Guarded => call'[c] = call[c] /\ call[c].doc \in Docs
  BY DEF CallsKeep, CallTypeOK, Guarded, Working
<1>2. EvidenceConsistent'
  BY DEF EvidenceInv, EvidenceConsistent, DataQuiet
<1>3. EvidenceEarned'
  BY DEF EvidenceInv, EvidenceEarned, DataQuiet
<1>4. SubmissionsOwned'
  BY <1>1 DEF EvidenceInv, SubmissionsOwned, DataQuiet, Guarded
<1>5. WorkRecorded'
  BY <1>1 DEF EvidenceInv, WorkRecorded, DataQuiet, Guarded, Working
<1>6. CodesProved'
  <2>1. \A d \in Docs : /\ req'[d].otpVerified = req[d].otpVerified
                        /\ mail[d].codes \subseteq mail'[d].codes
    BY DEF DataQuiet
  <2> QED
    BY <1>1, <2>1 DEF EvidenceInv, CodesProved, Guarded
<1> QED
  BY <1>2, <1>3, <1>4, <1>5, <1>6 DEF EvidenceInv

\* No call but c moves.
Others(c) == \A b \in Calls : b # c => call'[b] = call[b]

LEMMA VerifyOtpReadKeeps ==
  ASSUME DataTypeOK, CallTypeOK, EvidenceInv,
         NEW c \in Calls, NEW d \in Docs, VerifyOtpRead(c, d)
  PROVE  EvidenceInv'
<1>1. DataQuiet
  BY DEF VerifyOtpRead, DataQuiet, rows, files
<1>2. CASE Begin(c, d, "verify.wrong")
  <2>1. CallsKeep(Guarded)
    BY <1>2 DEF CallTypeOK, CallsKeep, Begin, IdleCall, Call, Guarded, Working
  <2> QED BY <1>1, <2>1, QuietKeeps
<1>3. CASE req[d].otp \in mail[d].codes /\ Begin(c, d, "verify.request")
  <2>1. /\ Others(c) /\ call'[c].step = "verify.request" /\ call'[c].doc = d
    BY <1>3 DEF CallTypeOK, Begin, IdleCall, Others
  <2>3. mail'[d].codes # {}
    BY <1>3 DEF VerifyOtpRead
  <2>4. EvidenceConsistent' /\ EvidenceEarned'
    BY <1>1 DEF EvidenceInv, EvidenceConsistent, EvidenceEarned, DataQuiet
  <2>5. SubmissionsOwned'
    BY <1>1, <2>1 DEF EvidenceInv, SubmissionsOwned, DataQuiet, Working, Others
  <2>6. WorkRecorded'
    BY <1>1, <2>1 DEF EvidenceInv, WorkRecorded, VerifyOtpRead, files, Working, Others
  <2>7. CodesProved'
    BY <1>1, <2>1, <2>3 DEF EvidenceInv, CodesProved, VerifyOtpRead, Working, rows, files, Others
  <2> QED
    BY <2>4, <2>5, <2>6, <2>7 DEF EvidenceInv
<1> QED BY <1>2, <1>3 DEF VerifyOtpRead

LEMMA VerifyWrongKeeps ==
  ASSUME DataTypeOK, CallTypeOK, EvidenceInv, NEW c \in Calls, VerifyWrong(c)
  PROVE  EvidenceInv'
<1>1. DataQuiet
  BY DEF VerifyWrong, DataQuiet, files, At, DataTypeOK, CallTypeOK, ReqRow
<1>2. CallsKeep(Guarded)
  BY DEF VerifyWrong, CallTypeOK, CallsKeep, Goto, Call, Guarded, Working
<1> QED
  BY <1>1, <1>2, QuietKeeps

LEMMA VerifyRequestKeeps ==
  ASSUME DataTypeOK, CallTypeOK, EvidenceInv,
         NEW c \in Calls, VerifyRequest(c)
  PROVE  EvidenceInv'
<1>1. /\ call[c].doc \in Docs /\ call[c].step = "verify.request"
      /\ mail[call[c].doc].codes # {}
  BY DEF VerifyRequest, CallTypeOK, At, EvidenceInv, CodesProved
<1>2. CallsKeep(Guarded)
  BY DEF VerifyRequest, CallTypeOK, CallsKeep, Goto, Call, Guarded, Working
<1>3. \A d \in Docs : /\ req[d].otpVerified => req'[d].otpVerified
                      /\ req'[d].otpVerified => req[d].otpVerified \/ mail[d].codes # {}
                      /\ req'[d].status = "signed" => req[d].status = "signed"
  BY <1>1 DEF VerifyRequest, DataTypeOK, ReqRow
<1>4. /\ UNCHANGED <<doc, sig, images, pdfs, audit, mail>>
  BY DEF VerifyRequest, files
<1>5. \A b \in Calls : call'[b].step \in Guarded => call'[b] = call[b] /\ call[b].doc \in Docs
  BY <1>2 DEF CallsKeep, CallTypeOK, Guarded, Working
<1>6. EvidenceConsistent'
  BY <1>3, <1>4 DEF EvidenceInv, EvidenceConsistent
<1>7. EvidenceEarned'
  BY <1>3, <1>4 DEF EvidenceInv, EvidenceEarned
<1>8. SubmissionsOwned' /\ WorkRecorded'
  BY <1>4, <1>5 DEF EvidenceInv, SubmissionsOwned, WorkRecorded, Guarded, Working
<1>9. CodesProved'
  BY <1>3, <1>4, <1>5 DEF EvidenceInv, CodesProved, Guarded
<1> QED
  BY <1>6, <1>7, <1>8, <1>9 DEF EvidenceInv

LEMMA SubmitReadKeeps ==
  ASSUME DataTypeOK, CallTypeOK, EvidenceInv,
         NEW c \in Calls, NEW d \in Docs, SubmitRead(c, d)
  PROVE  EvidenceInv'
<1>1. Others(c) /\ call'[c].step = "submit.image" /\ call'[c].doc = d
  BY DEF SubmitRead, CallTypeOK, Begin, IdleCall, Others
<1>2. UNCHANGED <<doc, req, sig, images, pdfs, audit, mail>> /\ req[d].otpVerified
  BY DEF SubmitRead, rows, files
<1>3. EvidenceConsistent' /\ EvidenceEarned'
  BY <1>2 DEF EvidenceInv, EvidenceConsistent, EvidenceEarned
<1>4. SubmissionsOwned' /\ WorkRecorded'
  BY <1>1, <1>2 DEF EvidenceInv, SubmissionsOwned, WorkRecorded, Working, Others
<1>5. CodesProved'
  BY <1>1, <1>2 DEF EvidenceInv, CodesProved, Working, Others
<1> QED
  BY <1>3, <1>4, <1>5 DEF EvidenceInv

LEMMA SubmitImageKeeps ==
  ASSUME DataTypeOK, CallTypeOK, EvidenceInv,
         NEW c \in Calls, SubmitImage(c)
  PROVE  EvidenceInv'
<1>1. PICK s \in Submissions \ images :
         /\ images' = images \cup {s}
         /\ call' = [call EXCEPT ![c] = [@ EXCEPT !.step = "submit.drawn", !.sub = s]]
  BY DEF SubmitImage
<1>2. /\ call[c].step = "submit.image" /\ call'[c].step = "submit.drawn"
      /\ call'[c].sub = s /\ call'[c].doc = call[c].doc /\ Others(c)
  <2>1. call[c] \in Call BY DEF CallTypeOK
  <2> QED BY <1>1, <2>1 DEF SubmitImage, CallTypeOK, At, Call, Others
<1>3. UNCHANGED <<doc, req, sig, pdfs, audit, mail>>
  BY DEF SubmitImage, rows
<1>4. EvidenceConsistent' /\ EvidenceEarned'
  BY <1>1, <1>3 DEF EvidenceInv, EvidenceConsistent, EvidenceEarned
<1>5. \A d \in Docs : sig[d] # s
  BY <1>1, ConstantsAssumption DEF EvidenceInv, EvidenceConsistent
<1>6. SubmissionsOwned'
  BY <1>1, <1>2, <1>3, <1>5 DEF EvidenceInv, SubmissionsOwned, Others
<1>7. WorkRecorded'
  BY <1>2, <1>3 DEF EvidenceInv, WorkRecorded, Others
<1>8. CodesProved'
  BY <1>2, <1>3 DEF EvidenceInv, CodesProved, Others
<1> QED
  BY <1>4, <1>6, <1>7, <1>8 DEF EvidenceInv

LEMMA SubmitDrawnKeeps ==
  ASSUME DataTypeOK, CallTypeOK, EvidenceInv,
         NEW c \in Calls, SubmitDrawn(c)
  PROVE  EvidenceInv'
<1>1. /\ call[c].step = "submit.drawn" /\ call'[c].step = "submit.consent"
      /\ call'[c].sub = call[c].sub /\ call'[c].doc = call[c].doc /\ Others(c)
      /\ call[c].doc \in Docs
  <2>1. call[c] \in Call BY DEF CallTypeOK
  <2> QED BY <2>1 DEF SubmitDrawn, AuditStep, Goto, CallTypeOK, At, Call, Others
<1>3. UNCHANGED <<doc, req, sig, images, pdfs, mail>>
  BY DEF SubmitDrawn, AuditStep, rows, files
<1>4. /\ \A d \in Docs : audit[d] \subseteq audit'[d]
      /\ {"sign.signature.drawn"} \cap Tracked \subseteq audit'[call[c].doc]
  BY <1>1 DEF SubmitDrawn, AuditStep, RecordAudit, DataTypeOK
<1>5. EvidenceConsistent' /\ EvidenceEarned'
  BY <1>3 DEF EvidenceInv, EvidenceConsistent, EvidenceEarned
<1>6. SubmissionsOwned'
  BY <1>1, <1>3 DEF EvidenceInv, SubmissionsOwned, Others, Working
<1>7. WorkRecorded'
  BY <1>1, <1>3, <1>4 DEF EvidenceInv, WorkRecorded, Others, Required, CallTypeOK
<1>8. CodesProved'
  BY <1>1, <1>3 DEF EvidenceInv, CodesProved, Others, Working
<1> QED
  BY <1>5, <1>6, <1>7, <1>8 DEF EvidenceInv

LEMMA SubmitConsentKeeps ==
  ASSUME DataTypeOK, CallTypeOK, EvidenceInv,
         NEW c \in Calls, SubmitConsent(c)
  PROVE  EvidenceInv'
<1>1. /\ call[c].step = "submit.consent" /\ call'[c].step = "submit.trail"
      /\ call'[c].sub = call[c].sub /\ call'[c].doc = call[c].doc /\ Others(c)
      /\ call[c].doc \in Docs
  <2>1. call[c] \in Call BY DEF CallTypeOK
  <2> QED BY <2>1 DEF SubmitConsent, AuditStep, Goto, CallTypeOK, At, Call, Others
<1>3. UNCHANGED <<doc, req, sig, images, pdfs, mail>>
  BY DEF SubmitConsent, AuditStep, rows, files
<1>4. /\ \A d \in Docs : audit[d] \subseteq audit'[d]
      /\ {"sign.consent.checked"} \cap Tracked \subseteq audit'[call[c].doc]
  BY <1>1 DEF SubmitConsent, AuditStep, RecordAudit, DataTypeOK
<1>5. EvidenceConsistent' /\ EvidenceEarned'
  BY <1>3 DEF EvidenceInv, EvidenceConsistent, EvidenceEarned
<1>6. SubmissionsOwned'
  BY <1>1, <1>3 DEF EvidenceInv, SubmissionsOwned, Others, Working
<1>7. WorkRecorded'
  <2>1. Required \subseteq audit'[call[c].doc]
    <3>1. Required \ {"sign.consent.checked"} \subseteq audit[call[c].doc]
      BY <1>1 DEF EvidenceInv, WorkRecorded
    <3> QED
      BY <1>1, <1>4, <3>1 DEF Required
  <2>2. \A b \in Calls : call[b].step \in {"submit.consent", "submit.trail"} =>
            audit[call[b].doc] \subseteq audit'[call[b].doc]
    BY <1>4 DEF CallTypeOK
  <2> QED
    BY <1>1, <1>3, <2>1, <2>2 DEF EvidenceInv, WorkRecorded, Others
<1>8. CodesProved'
  BY <1>1, <1>3 DEF EvidenceInv, CodesProved, Others, Working
<1> QED
  BY <1>5, <1>6, <1>7, <1>8 DEF EvidenceInv

LEMMA SubmitTrailKeeps ==
  ASSUME DataTypeOK, CallTypeOK, EvidenceInv,
         NEW c \in Calls, SubmitTrail(c)
  PROVE  EvidenceInv'
<1>1. /\ call[c].step = "submit.trail" /\ call'[c].step = "submit.pdf"
      /\ call'[c].sub = call[c].sub /\ call'[c].doc = call[c].doc /\ Others(c)
      /\ call'[c].trail = audit[call[c].doc]
  <2>1. call[c] \in Call BY DEF CallTypeOK
  <2> QED BY <2>1 DEF SubmitTrail, CallTypeOK, At, Call, Others
<1>3. UNCHANGED <<doc, req, sig, images, pdfs, audit, mail>>
  BY DEF SubmitTrail, rows, files
<1>5. EvidenceConsistent' /\ EvidenceEarned'
  BY <1>3 DEF EvidenceInv, EvidenceConsistent, EvidenceEarned
<1>6. SubmissionsOwned'
  BY <1>1, <1>3 DEF EvidenceInv, SubmissionsOwned, Others, Working
<1>7. WorkRecorded'
  BY <1>1, <1>3 DEF EvidenceInv, WorkRecorded, Others
<1>8. CodesProved'
  BY <1>1, <1>3 DEF EvidenceInv, CodesProved, Others, Working
<1> QED
  BY <1>5, <1>6, <1>7, <1>8 DEF EvidenceInv

LEMMA SubmitPdfKeeps ==
  ASSUME DataTypeOK, CallTypeOK, EvidenceInv,
         NEW c \in Calls, SubmitPdf(c)
  PROVE  EvidenceInv'
<1>1. /\ call[c].step = "submit.pdf" /\ call'[c].step = "submit.commit"
      /\ call'[c].sub = call[c].sub /\ call'[c].doc = call[c].doc /\ Others(c)
      /\ call'[c].trail = call[c].trail
  <2>1. call[c] \in Call BY DEF CallTypeOK
  <2> QED BY <2>1 DEF SubmitPdf, CallTypeOK, At, Call, Others, Goto
<1>2. /\ call[c].sub \in images /\ call[c].sub \in Submissions
      /\ \A d \in Docs : sig[d] # call[c].sub
      /\ \A b \in Calls : b # c /\ call[b].step \in Working => call[b].sub # call[c].sub
  BY <1>1 DEF EvidenceInv, SubmissionsOwned, Working, DataTypeOK
<1>3. /\ UNCHANGED <<doc, req, sig, images, audit, mail>>
      /\ pdfs' = [pdfs EXCEPT ![call[c].sub] =
                     [written |-> TRUE, trail |-> call[c].trail]]
  BY DEF SubmitPdf, rows
<1>4. /\ pdfs'[call[c].sub] = [written |-> TRUE, trail |-> call[c].trail]
      /\ \A s \in Submissions : s # call[c].sub => pdfs'[s] = pdfs[s]
  BY <1>2, <1>3 DEF DataTypeOK
<1>5. \A d \in Docs : sig[d] # None => pdfs'[sig[d]] = pdfs[sig[d]]
  BY <1>2, <1>4 DEF DataTypeOK
<1>5a. EvidenceConsistent' /\ EvidenceEarned'
  BY <1>3, <1>5 DEF EvidenceInv, EvidenceConsistent, EvidenceEarned
<1>6. SubmissionsOwned'
  BY <1>1, <1>3 DEF EvidenceInv, SubmissionsOwned, Others, Working
<1>7. WorkRecorded'
  <2>1. \A b \in Calls : b # c /\ call[b].step = "submit.commit" =>
             pdfs'[call[b].sub] = pdfs[call[b].sub]
    BY <1>2, <1>4 DEF EvidenceInv, SubmissionsOwned, DataTypeOK, Working
  <2>2. Required \subseteq call'[c].trail
    BY <1>1 DEF EvidenceInv, WorkRecorded
  <2>3. pdfs'[call'[c].sub] = [written |-> TRUE, trail |-> call'[c].trail]
    BY <1>1, <1>4
  <2>4. \A b \in Calls : b # c /\ call'[b].step = "submit.commit" =>
             pdfs'[call'[b].sub] = [written |-> TRUE, trail |-> call'[b].trail]
    <3>1. ASSUME NEW b \in Calls, b # c, call'[b].step = "submit.commit"
          PROVE  pdfs'[call'[b].sub] = [written |-> TRUE, trail |-> call'[b].trail]
      <4>1. call'[b] = call[b]
        BY <1>1, <3>1 DEF Others
      <4>2. pdfs[call[b].sub] = [written |-> TRUE, trail |-> call[b].trail]
        BY <3>1, <4>1 DEF EvidenceInv, WorkRecorded
      <4>3. pdfs'[call[b].sub] = pdfs[call[b].sub]
        BY <2>1, <3>1, <4>1
      <4> QED
        BY <4>1, <4>2, <4>3
    <3> QED
      BY <3>1
  <2>5. \A b \in Calls : b # c =>
           /\ call'[b].step \in {"submit.consent", "submit.trail"} =>
                 Required \ {"sign.consent.checked"} \subseteq audit'[call'[b].doc]
           /\ call'[b].step = "submit.trail" => Required \subseteq audit'[call'[b].doc]
           /\ call'[b].step \in {"submit.pdf", "submit.commit"} =>
                 Required \subseteq call'[b].trail
    BY <1>1, <1>3 DEF EvidenceInv, WorkRecorded, Others
  <2> QED
    BY <1>1, <2>2, <2>3, <2>4, <2>5 DEF WorkRecorded
<1>8. CodesProved'
  BY <1>1, <1>3 DEF EvidenceInv, CodesProved, Others, Working
<1> QED
  BY <1>5a, <1>6, <1>7, <1>8 DEF EvidenceInv

LEMMA SubmitCommitKeeps ==
  ASSUME DataTypeOK, CallTypeOK, EvidenceInv,
         NEW c \in Calls, SubmitCommit(c)
  PROVE  EvidenceInv'
<1> DEFINE D == call[c].doc
           S == call[c].sub
<1>1. /\ call[c].step = "submit.commit" /\ D \in Docs
  BY DEF SubmitCommit, At, CallTypeOK
<1>2. /\ S \in images /\ S \in Submissions /\ S # None
      /\ \A d \in Docs : sig[d] # S
      /\ \A b \in Calls : b # c /\ call[b].step \in Working => call[b].sub # S
  BY <1>1, ConstantsAssumption DEF EvidenceInv, SubmissionsOwned, Working, DataTypeOK
<1>3. /\ Required \subseteq call[c].trail
      /\ pdfs[S] = [written |-> TRUE, trail |-> call[c].trail]
      /\ req[D].otpVerified
  BY <1>1 DEF EvidenceInv, WorkRecorded, CodesProved, Working
<1>4. UNCHANGED <<images, pdfs, audit, mail>>
  BY DEF SubmitCommit, files
<1>5. CallsKeep(Guarded)
  BY <1>1 DEF SubmitCommit, CallTypeOK, CallsKeep, Goto, Return, IdleCall, Call, Guarded, Working
<1>6. \A b \in Calls : call'[b].step \in Guarded => call'[b] = call[b] /\ call[b].doc \in Docs /\ b # c
  <2>1. call[c] \in Call
    BY DEF CallTypeOK
  <2>2. call'[c].step \in {"submit.signed", "idle"}
    BY <2>1 DEF SubmitCommit, CallTypeOK, Goto, Return, IdleCall, Call
  <2> QED
    BY <1>5, <2>2 DEF CallsKeep, CallTypeOK, Guarded, Working
<1>7. CASE sig[D] # None
  <2>1. DataQuiet
    BY <1>4, <1>7 DEF SubmitCommit, DataQuiet, rows
  <2> QED
    BY <2>1, <1>5, QuietKeeps
<1>8. CASE sig[D] = None
  <2>1. /\ doc' = [doc EXCEPT ![D] = [status |-> "signed", signedFile |-> S]]
        /\ req' = [req EXCEPT ![D].status = "signed"]
        /\ sig' = [sig EXCEPT ![D] = S]
    BY <1>8 DEF SubmitCommit
  <2>2. /\ sig'[D] = S /\ doc'[D].signedFile = S
        /\ \A d \in Docs : d # D => /\ sig'[d] = sig[d] /\ doc'[d] = doc[d] /\ req'[d] = req[d]
        /\ \A d \in Docs : req'[d].otpVerified = req[d].otpVerified
    BY <1>1, <2>1 DEF DataTypeOK, ReqRow
  <2>3. EvidenceConsistent'
    BY <1>1, <1>2, <1>3, <1>4, <2>2 DEF EvidenceInv, EvidenceConsistent
  <2>4. EvidenceEarned'
    BY <1>1, <1>2, <1>3, <1>4, <2>2 DEF EvidenceInv, EvidenceEarned
  <2>5. SubmissionsOwned'
    BY <1>2, <1>4, <1>6, <2>2 DEF EvidenceInv, SubmissionsOwned, Guarded
  <2>6. WorkRecorded'
    BY <1>4, <1>6 DEF EvidenceInv, WorkRecorded, Guarded, Working
  <2>7. CodesProved'
    BY <1>4, <1>6, <2>2 DEF EvidenceInv, CodesProved, Guarded
  <2> QED
    BY <2>3, <2>4, <2>5, <2>6, <2>7 DEF EvidenceInv
<1> QED BY <1>7, <1>8

LEMMA EvidenceInit == Init => EvidenceInv
<1> SUFFICES ASSUME Init PROVE EvidenceInv
  OBVIOUS
<1>1. EvidenceConsistent /\ EvidenceEarned
  BY DEF Init, EvidenceConsistent, EvidenceEarned
<1>2. SubmissionsOwned /\ WorkRecorded /\ CodesProved
  BY DEF Init, IdleCall, SubmissionsOwned, WorkRecorded, CodesProved, Working
<1> QED
  BY <1>1, <1>2 DEF EvidenceInv

LEMMA EvidenceStep == TypeOK /\ EvidenceInv /\ [Next]_vars => EvidenceInv'
<1> SUFFICES ASSUME DataTypeOK, CallTypeOK, EvidenceInv, [Next]_vars
             PROVE  EvidenceInv'
  BY DEF TypeOK
<1>1. CASE Quiet
  BY <1>1, QuietKeeps DEF Quiet, CallsKeep, Watched
<1>2. ASSUME NEW c \in Calls, NEW d \in Docs, VerifyOtpRead(c, d) \/ SubmitRead(c, d)
      PROVE  EvidenceInv'
  BY <1>2, VerifyOtpReadKeeps, SubmitReadKeeps
<1>3. ASSUME NEW c \in Calls,
             \/ VerifyWrong(c) \/ VerifyRequest(c)
             \/ SubmitImage(c) \/ SubmitDrawn(c) \/ SubmitConsent(c)
             \/ SubmitTrail(c) \/ SubmitPdf(c) \/ SubmitCommit(c)
      PROVE  EvidenceInv'
  BY <1>3, VerifyWrongKeeps, VerifyRequestKeeps, SubmitImageKeeps, SubmitDrawnKeeps,
     SubmitConsentKeeps, SubmitTrailKeeps, SubmitPdfKeeps, SubmitCommitKeeps
<1> QED
  BY <1>1, <1>2, <1>3, StepKinds

\* The strengthened evidence invariant holds in every reachable state.
THEOREM EvidenceInvariant == Spec => []EvidenceInv
<1>1. Init => EvidenceInv
  BY EvidenceInit
<1>2. TypeOK /\ EvidenceInv /\ [Next]_vars => EvidenceInv'
  BY EvidenceStep
<1> QED
  BY <1>1, <1>2, TypeCorrect, PTL DEF Spec

\* Signature row, signed file and storage always agree, however many
\* submissions of however many documents run in parallel.
THEOREM EvidenceAgrees == Spec => []EvidenceConsistent
<1>1. EvidenceInv => EvidenceConsistent
  BY DEF EvidenceInv
<1> QED
  BY <1>1, EvidenceInvariant, PTL

\* No document is signed without a mailed and proved code, and no signed PDF
\* lacks the consent and drawing entries.
THEOREM SignatureEarned == Spec => []EvidenceEarned
<1>1. EvidenceInv => EvidenceEarned
  BY DEF EvidenceInv
<1> QED
  BY <1>1, EvidenceInvariant, PTL

-----------------------------------------------------------------------------
(* Wrong codes.  A call that judged a code wrong has its increment still   *)
(* ahead of it; the attempts stored and those still to come are bounded    *)
(* together.                                                               *)

WrongCalls(d) == {c \in Calls : call[c].step = "verify.wrong" /\ call[c].doc = d}

AttemptsInv ==
    \A d \in Docs :
        req[d].otpAttempts + Cardinality(WrongCalls(d))
            <= OTP_MAX_ATTEMPTS - 1 + Cardinality(Calls)

LEMMA WrongCallsFinite ==
  ASSUME NEW d \in Docs
  PROVE  /\ IsFiniteSet(WrongCalls(d)) /\ IsFiniteSet(WrongCalls(d)')
         /\ Cardinality(WrongCalls(d)) \in Nat
         /\ Cardinality(WrongCalls(d)') \in Nat /\ Cardinality(Calls) \in Nat
         /\ Cardinality(WrongCalls(d)') <= Cardinality(Calls)
<1>1. WrongCalls(d) \in SUBSET Calls /\ WrongCalls(d)' \in SUBSET Calls
  BY DEF WrongCalls
<1>2. /\ IsFiniteSet(WrongCalls(d)) /\ IsFiniteSet(WrongCalls(d)')
      /\ Cardinality(WrongCalls(d)') <= Cardinality(Calls)
  BY <1>1, FS_Subset, ConstantsAssumption
<1> QED
  BY <1>2, FS_CardinalityType, ConstantsAssumption

\* A step that counts nothing and adds no wrong call keeps the bound.
LEMMA NotCountedKeeps ==
  ASSUME DataTypeOK, CallTypeOK, AttemptsInv, NotCounted, CallsKeep({"verify.wrong"})
  PROVE  AttemptsInv'
<1> SUFFICES ASSUME NEW d \in Docs
             PROVE  req'[d].otpAttempts + Cardinality(WrongCalls(d)')
                        <= OTP_MAX_ATTEMPTS - 1 + Cardinality(Calls)
  BY DEF AttemptsInv
<1>1. WrongCalls(d)' \in SUBSET WrongCalls(d)
  BY DEF WrongCalls, CallsKeep
<1>2. Cardinality(WrongCalls(d)') <= Cardinality(WrongCalls(d))
  BY <1>1, WrongCallsFinite, FS_Subset
<1>3. req[d].otpAttempts \in Nat /\ req'[d].otpAttempts \in {0, req[d].otpAttempts}
  BY DEF NotCounted, DataTypeOK, ReqRow
<1>4. req[d].otpAttempts + Cardinality(WrongCalls(d))
            <= OTP_MAX_ATTEMPTS - 1 + Cardinality(Calls)
  BY DEF AttemptsInv
<1> QED
  BY <1>2, <1>3, <1>4, WrongCallsFinite, ConstantsAssumption

LEMMA VerifyOtpReadCounts ==
  ASSUME DataTypeOK, CallTypeOK, AttemptsInv,
         NEW c \in Calls, NEW d \in Docs, VerifyOtpRead(c, d)
  PROVE  AttemptsInv'
<1> SUFFICES ASSUME NEW e \in Docs
             PROVE  req'[e].otpAttempts + Cardinality(WrongCalls(e)')
                        <= OTP_MAX_ATTEMPTS - 1 + Cardinality(Calls)
  BY DEF AttemptsInv
<1>1. req' = req /\ req[d].otpAttempts < OTP_MAX_ATTEMPTS /\ req[e].otpAttempts \in Nat
  BY DEF VerifyOtpRead, rows, DataTypeOK, ReqRow
<1>2. CASE e = d
  BY <1>1, <1>2, WrongCallsFinite, ConstantsAssumption
<1>3. CASE e # d
  <2>1. call'[c].doc = d /\ \A b \in Calls : b # c => call'[b] = call[b]
    BY DEF VerifyOtpRead, Begin, IdleCall, CallTypeOK
  <2>2. WrongCalls(e)' \in SUBSET WrongCalls(e)
    BY <1>3, <2>1 DEF WrongCalls
  <2>3. Cardinality(WrongCalls(e)') <= Cardinality(WrongCalls(e))
    BY <2>2, WrongCallsFinite, FS_Subset
  <2>4. req[e].otpAttempts + Cardinality(WrongCalls(e))
            <= OTP_MAX_ATTEMPTS - 1 + Cardinality(Calls)
    BY DEF AttemptsInv
  <2> QED
    BY <1>1, <2>3, <2>4, WrongCallsFinite, ConstantsAssumption
<1> QED
  BY <1>2, <1>3

LEMMA VerifyWrongCounts ==
  ASSUME DataTypeOK, CallTypeOK, AttemptsInv, NEW c \in Calls, VerifyWrong(c)
  PROVE  AttemptsInv'
<1> SUFFICES ASSUME NEW e \in Docs
             PROVE  req'[e].otpAttempts + Cardinality(WrongCalls(e)')
                        <= OTP_MAX_ATTEMPTS - 1 + Cardinality(Calls)
  BY DEF AttemptsInv
<1>1. /\ call[c].step = "verify.wrong" /\ call[c].doc \in Docs
      /\ call'[c].step = "verify.wrongAudit"
      /\ \A b \in Calls : b # c => call'[b] = call[b]
  <2>1. call[c] \in Call
    BY DEF CallTypeOK
  <2> QED
    BY <2>1 DEF VerifyWrong, At, Goto, CallTypeOK, Call
<1>2. /\ req[e].otpAttempts \in Nat
      /\ req'[e].otpAttempts =
           IF e = call[c].doc THEN req[e].otpAttempts + 1 ELSE req[e].otpAttempts
  BY <1>1 DEF VerifyWrong, DataTypeOK, ReqRow
<1>3. WrongCalls(e)' = WrongCalls(e) \ {c}
  BY <1>1 DEF WrongCalls
<1>4. c \in WrongCalls(e) <=> e = call[c].doc
  BY <1>1 DEF WrongCalls
<1>5. Cardinality(WrongCalls(e)') = IF c \in WrongCalls(e)
                                    THEN Cardinality(WrongCalls(e)) - 1
                                    ELSE Cardinality(WrongCalls(e))
  BY <1>3, WrongCallsFinite, FS_RemoveElement
<1>6. req[e].otpAttempts + Cardinality(WrongCalls(e))
            <= OTP_MAX_ATTEMPTS - 1 + Cardinality(Calls)
  BY DEF AttemptsInv
<1> QED
  BY <1>2, <1>4, <1>5, <1>6, WrongCallsFinite, ConstantsAssumption

LEMMA SubmitNotCounted ==
  ASSUME DataTypeOK, CallTypeOK, NEW c \in Calls,
         \/ \E d \in Docs : SubmitRead(c, d)
         \/ VerifyRequest(c) \/ SubmitImage(c) \/ SubmitDrawn(c) \/ SubmitConsent(c)
         \/ SubmitTrail(c) \/ SubmitPdf(c) \/ SubmitCommit(c)
  PROVE  NotCounted /\ CallsKeep({"verify.wrong"})
<1> USE DEF CallsKeep, CallTypeOK, Call
<1>1. ASSUME NEW d \in Docs, SubmitRead(c, d)
      PROVE  NotCounted /\ CallsKeep({"verify.wrong"})
  BY <1>1 DEF SubmitRead, Begin, IdleCall, NotCounted, rows
<1>2. CASE VerifyRequest(c)
  <2>1. CallsKeep({"verify.wrong"})
    BY <1>2 DEF VerifyRequest, Goto
  <2> QED
    BY <1>2, <2>1 DEF VerifyRequest, At, NotCounted, DataTypeOK, ReqRow
<1>3. CASE SubmitImage(c)
  BY <1>3 DEF SubmitImage, NotCounted, rows
<1>4. CASE SubmitDrawn(c) \/ SubmitConsent(c)
  BY <1>4 DEF SubmitDrawn, SubmitConsent, AuditStep, Goto, NotCounted, rows
<1>5. CASE SubmitTrail(c)
  BY <1>5 DEF SubmitTrail, NotCounted, rows
<1>6. CASE SubmitPdf(c)
  BY <1>6 DEF SubmitPdf, Goto, NotCounted, rows
<1>7. CASE SubmitCommit(c)
  <2>1. CallsKeep({"verify.wrong"})
    BY <1>7 DEF SubmitCommit, Goto, Return, IdleCall
  <2> QED
    BY <1>7, <2>1 DEF SubmitCommit, At, NotCounted, DataTypeOK, ReqRow, rows
<1> QED
  BY <1>1, <1>2, <1>3, <1>4, <1>5, <1>6, <1>7

LEMMA AttemptsStep == TypeOK /\ AttemptsInv /\ [Next]_vars => AttemptsInv'
<1> SUFFICES ASSUME DataTypeOK, CallTypeOK, AttemptsInv, [Next]_vars
             PROVE  AttemptsInv'
  BY DEF TypeOK
<1>1. CASE Quiet
  BY <1>1, NotCountedKeeps DEF Quiet, CallsKeep, Watched
<1>2. ASSUME NEW c \in Calls, NEW d \in Docs, VerifyOtpRead(c, d) PROVE AttemptsInv'
  BY <1>2, VerifyOtpReadCounts
<1>3. ASSUME NEW c \in Calls, VerifyWrong(c) PROVE AttemptsInv'
  BY <1>3, VerifyWrongCounts
<1>4. ASSUME NEW c \in Calls,
             \/ \E d \in Docs : SubmitRead(c, d)
             \/ VerifyRequest(c) \/ SubmitImage(c) \/ SubmitDrawn(c)
             \/ SubmitConsent(c) \/ SubmitTrail(c) \/ SubmitPdf(c) \/ SubmitCommit(c)
      PROVE  AttemptsInv'
  BY <1>4, SubmitNotCounted, NotCountedKeeps
<1> QED
  BY <1>1, <1>2, <1>3, <1>4, StepKinds

LEMMA AttemptsInit == Init => AttemptsInv
<1> SUFFICES ASSUME Init, NEW d \in Docs
             PROVE  req[d].otpAttempts + Cardinality(WrongCalls(d))
                        <= OTP_MAX_ATTEMPTS - 1 + Cardinality(Calls)
  BY DEF AttemptsInv
<1>1. req[d].otpAttempts = 0 /\ WrongCalls(d) = {}
  BY DEF Init, WrongCalls, IdleCall
<1> QED
  BY <1>1, FS_EmptySet, FS_CardinalityType, ConstantsAssumption

\* However many calls guess at once, the wrong codes counted against one code
\* never exceed the limit by more than the calls in flight less one.
THEOREM AttemptsAreBounded == Spec => []AttemptsBounded
<1>1. TypeOK /\ AttemptsInv => AttemptsBounded
  <2> SUFFICES ASSUME TypeOK, AttemptsInv, NEW d \in Docs
               PROVE  req[d].otpAttempts <= OTP_MAX_ATTEMPTS - 1 + Cardinality(Calls)
    BY DEF AttemptsBounded
  <2>1. req[d].otpAttempts \in Nat
    BY DEF TypeOK, DataTypeOK, ReqRow
  <2>2. req[d].otpAttempts + Cardinality(WrongCalls(d))
            <= OTP_MAX_ATTEMPTS - 1 + Cardinality(Calls)
    BY DEF AttemptsInv
  <2> QED
    BY <2>1, <2>2, WrongCallsFinite, ConstantsAssumption
<1> QED
  BY <1>1, AttemptsInit, AttemptsStep, TypeCorrect, PTL DEF Spec

-----------------------------------------------------------------------------
(* Closed requests.                                                        *)

\* A link lapses only of a request that there is.
LapsedRequested == \A d \in Docs : clock[d].linkExpired => req[d].status # "absent"

\* What a step leaves of a request that is closed: no status but cancelled, no
\* signature, and no signer call that was not there before.
StaysClosed(d) ==
    /\ sig'[d] = sig[d]
    /\ req'[d].status \in {req[d].status, "cancelled"}
    /\ clock[d].linkExpired => clock'[d].linkExpired
    /\ \A c \in Calls : call'[c].doc = d /\ call'[c].step \in SignerSteps =>
          call[c].doc = d /\ call[c].step \in SignerSteps

\* No other call moves.
MovesOnly(c) == \A b \in Calls \ {c} : call'[b] = call[b]

LEMMA CallMoves ==
  ASSUME CallTypeOK, NEW c \in Calls
  PROVE  /\ \A step : Goto(c, step) =>
               MovesOnly(c) /\ call'[c].step = step /\ call'[c].doc = call[c].doc
         /\ Return(c) => MovesOnly(c) /\ call'[c].step \notin SignerSteps
         /\ \A e, step : Begin(c, e, step) =>
               MovesOnly(c) /\ call'[c].step = step /\ call'[c].doc = e
<1>1. ASSUME NEW step, Goto(c, step)
      PROVE  MovesOnly(c) /\ call'[c].step = step /\ call'[c].doc = call[c].doc
  BY <1>1 DEF CallTypeOK, Call, MovesOnly, Goto
<1>2. ASSUME Return(c)
      PROVE  MovesOnly(c) /\ call'[c].step \notin SignerSteps
  BY <1>2 DEF CallTypeOK, MovesOnly, Return, IdleCall, SignerSteps, SubmitSteps
<1>3. ASSUME NEW e, NEW step, Begin(c, e, step)
      PROVE  MovesOnly(c) /\ call'[c].step = step /\ call'[c].doc = e
  BY <1>3 DEF CallTypeOK, MovesOnly, Begin, IdleCall
<1> QED
  BY <1>1, <1>2, <1>3

LEMMA OneCallMoves ==
  ASSUME NEW d, NEW c \in Calls, MovesOnly(c),
         call'[c].step \in SignerSteps => call'[c].doc # d
  PROVE  \A b \in Calls : call'[b].doc = d /\ call'[b].step \in SignerSteps =>
             call[b].doc = d /\ call[b].step \in SignerSteps
  BY DEF MovesOnly

\* The tenant's own calls, and calls that end.
LEMMA TenantStaysClosed ==
  ASSUME DataTypeOK, CallTypeOK, NEW d \in Docs, req[d].status # "absent",
         NEW c \in Calls, DocumentStep(c) \/ RequestStep(c) \/ Fail(c)
  PROVE  StaysClosed(d)
<1>1. MovesOnly(c) /\ call'[c].step \notin SignerSteps
  <2>1. \/ Return(c)
        \/ \E step : step \notin SignerSteps /\ (Goto(c, step) \/ \E e : Begin(c, e, step))
    BY DEF DocumentStep, RequestStep, Upload, GenerateFromTemplate, NewDocument, TenantRead,
           UploadAudit, GenerateAudit, TenantReadAudit, CreateRead, CancelRead, CreateCommit,
           CreateAudit, CreateMail, CreateMailedAudit, CreateMailFailedAudit, CreateNotify,
           CancelCommit, CancelAudit, Fail, SignerSteps, SubmitSteps
  <2> QED
    BY <2>1, CallMoves
<1>2. UNCHANGED <<sig, clock>>
  BY DEF DocumentStep, RequestStep, Upload, GenerateFromTemplate, NewDocument, TenantRead,
         UploadAudit, GenerateAudit, TenantReadAudit, CreateRead, CancelRead, CreateCommit,
         CreateAudit, CreateMail, CreateMailedAudit, CreateMailFailedAudit, CreateNotify,
         CancelCommit, CancelAudit, Fail, AuditStep, rows
<1>3. req'[d].status \in {req[d].status, "cancelled"}
  <2>1. CASE CreateCommit(c)
    BY <2>1 DEF CreateCommit, DataTypeOK, ReqRow
  <2>2. CASE CancelCommit(c)
    BY <2>2 DEF CancelCommit, DataTypeOK, ReqRow
  <2>3. CASE ~CreateCommit(c) /\ ~CancelCommit(c)
    BY <2>3
    DEF DocumentStep, RequestStep, Upload, GenerateFromTemplate, NewDocument, TenantRead,
        UploadAudit, GenerateAudit, TenantReadAudit, CreateRead, CancelRead,
        CreateAudit, CreateMail, CreateMailedAudit, CreateMailFailedAudit, CreateNotify,
        CancelAudit, Fail, AuditStep, rows
  <2> QED
    BY <2>1, <2>2, <2>3
<1> QED
  BY <1>1, <1>2, <1>3, OneCallMoves DEF StaysClosed

\* A closed request is not valid, so no signer call begins for it.
LEMMA NoneBegins ==
  ASSUME DataTypeOK, CallTypeOK, NEW d \in Docs, Closed(d), NEW c \in Calls, NEW e \in Docs,
         \/ PreviewRead(c, e) \/ SendOtpRead(c, e) \/ VerifyOtpRead(c, e)
         \/ ViewRead(c, e) \/ SubmitRead(c, e)
  PROVE  StaysClosed(d)
<1>1. e # d
  BY DEF Closed, Valid, PreviewRead, SendOtpRead, VerifyOtpRead, ViewRead, SubmitRead
<1>2. UNCHANGED <<req, sig, clock>>
  BY DEF PreviewRead, SendOtpRead, VerifyOtpRead, ViewRead, SubmitRead, rows
<1>3. MovesOnly(c) /\ call'[c].doc = e
  <2>1. CASE PreviewRead(c, e)
    BY <2>1 DEF PreviewRead, MovesOnly, CallTypeOK, IdleCall
  <2>2. CASE \E step : Begin(c, e, step)
    BY <2>2, CallMoves
  <2> QED
    BY <2>1, <2>2 DEF SendOtpRead, VerifyOtpRead, ViewRead, SubmitRead
<1> QED
  BY <1>1, <1>2, <1>3, OneCallMoves DEF StaysClosed

\* A signer call under way is about another document.
LEMMA SignerStaysClosed ==
  ASSUME DataTypeOK, CallTypeOK, NEW d \in Docs, Closed(d), NEW c \in Calls,
         \/ PreviewAudit(c) \/ PreviewRequest(c) \/ PreviewDocument(c)
         \/ SendOtpStore(c) \/ SendOtpMail(c) \/ SendOtpAudit(c)
         \/ VerifyWrong(c) \/ VerifyWrongAudit(c)
         \/ VerifyRequest(c) \/ VerifyDocument(c) \/ VerifyAudit(c) \/ ViewAudit(c)
         \/ SubmitImage(c) \/ SubmitDrawn(c) \/ SubmitConsent(c) \/ SubmitTrail(c)
         \/ SubmitPdf(c) \/ SubmitCommit(c) \/ SubmitSignedAudit(c) \/ SubmitGeneratedAudit(c)
  PROVE  StaysClosed(d)
<1>1. call[c].step \in SignerSteps
  BY DEF PreviewAudit, PreviewRequest, PreviewDocument, SendOtpStore, SendOtpMail, SendOtpAudit,
         VerifyWrong, VerifyWrongAudit, VerifyRequest, VerifyDocument, VerifyAudit, ViewAudit,
         SubmitImage, SubmitDrawn, SubmitConsent, SubmitTrail, SubmitPdf, SubmitCommit,
         SubmitSignedAudit, SubmitGeneratedAudit, AuditStep, At, SignerSteps, SubmitSteps
<1>2. call[c].doc # d /\ call[c].doc \in Docs
  BY <1>1 DEF Closed, CallTypeOK, SignerSteps, SubmitSteps
<1>3. /\ MovesOnly(c)
      /\ call'[c].doc = call[c].doc \/ call'[c].step \notin SignerSteps
  <2>1. CASE SendOtpStore(c) \/ SubmitImage(c) \/ SubmitTrail(c)
    <3>1. PICK x : call' = [call EXCEPT ![c] = x] /\ x.doc = call[c].doc
      <4>1. CASE SendOtpStore(c)
        <5> DEFINE x == [call[c] EXCEPT !.step = "otp.mail", !.code = req[call[c].doc].otp + 1]
        <5>1. call' = [call EXCEPT ![c] = x]
          BY <4>1 DEF SendOtpStore, CallTypeOK
        <5>2. x.doc = call[c].doc
          BY DEF CallTypeOK, Call
        <5> QED
          BY <5>1, <5>2
      <4>2. CASE SubmitImage(c)
        BY <4>2 DEF SubmitImage, CallTypeOK, Call
      <4>3. CASE SubmitTrail(c)
        <5> DEFINE x == [call[c] EXCEPT !.step = "submit.pdf", !.trail = audit[call[c].doc]]
        <5>1. call' = [call EXCEPT ![c] = x]
          BY <4>3 DEF SubmitTrail, CallTypeOK
        <5>2. x.doc = call[c].doc
          BY DEF CallTypeOK, Call
        <5> QED
          BY <5>1, <5>2
      <4> QED
        BY <2>1, <4>1, <4>2, <4>3
    <3> QED
      BY <3>1 DEF MovesOnly, CallTypeOK
  <2>2. CASE Return(c) \/ \E step : Goto(c, step)
    BY <2>2, CallMoves
  <2> QED
    BY <2>1, <2>2
    DEF PreviewAudit, PreviewRequest, PreviewDocument, SendOtpMail, SendOtpAudit,
        VerifyWrong, VerifyWrongAudit, VerifyRequest, VerifyDocument, VerifyAudit, ViewAudit,
        SubmitDrawn, SubmitConsent, SubmitPdf, SubmitCommit, SubmitSignedAudit,
        SubmitGeneratedAudit
<1>4. req'[d] = req[d] /\ sig'[d] = sig[d]
  <2>1. req' = req \/ \E x : req' = [req EXCEPT ![call[c].doc] = x]
    BY DEF PreviewAudit, PreviewRequest, PreviewDocument, SendOtpStore, SendOtpMail,
        SendOtpAudit, VerifyWrong, VerifyWrongAudit, VerifyRequest, VerifyDocument, VerifyAudit,
        ViewAudit, SubmitImage, SubmitDrawn, SubmitConsent, SubmitTrail, SubmitPdf, SubmitCommit,
        SubmitSignedAudit, SubmitGeneratedAudit, AuditStep, rows
  <2>2. sig' = sig \/ \E x : sig' = [sig EXCEPT ![call[c].doc] = x]
    BY DEF PreviewAudit, PreviewRequest, PreviewDocument, SendOtpStore, SendOtpMail,
        SendOtpAudit, VerifyWrong, VerifyWrongAudit, VerifyRequest, VerifyDocument, VerifyAudit,
        ViewAudit, SubmitImage, SubmitDrawn, SubmitConsent, SubmitTrail, SubmitPdf, SubmitCommit,
        SubmitSignedAudit, SubmitGeneratedAudit, AuditStep, rows
  <2> QED
    BY <1>2, <2>1, <2>2 DEF DataTypeOK
<1>5. clock'[d] = clock[d]
  BY <1>2
  DEF PreviewAudit, PreviewRequest, PreviewDocument, SendOtpStore, SendOtpMail,
      SendOtpAudit, VerifyWrong, VerifyWrongAudit, VerifyRequest, VerifyDocument, VerifyAudit,
      ViewAudit, SubmitImage, SubmitDrawn, SubmitConsent, SubmitTrail, SubmitPdf, SubmitCommit,
      SubmitSignedAudit, SubmitGeneratedAudit, AuditStep, DataTypeOK
<1> QED
  BY <1>2, <1>3, <1>4, <1>5, OneCallMoves DEF StaysClosed

LEMMA TimeStaysClosed ==
  ASSUME DataTypeOK, NEW d \in Docs, NEW e \in Docs, LinkLapses(e) \/ OtpAges(e)
  PROVE  StaysClosed(d)
  BY DEF StaysClosed, LinkLapses, OtpAges, rows, DataTypeOK, Clock

LEMMA EachStaysClosed ==
  ASSUME TypeOK, LapsedRequested, NEW d \in Docs, Closed(d), [Next]_vars
  PROVE  StaysClosed(d)
<1>1. req[d].status # "absent"
  BY DEF Closed, LapsedRequested
<1>2. CASE UNCHANGED vars
  BY <1>2 DEF vars, StaysClosed
<1>3. CASE Next
  BY <1>1, <1>3, TenantStaysClosed, NoneBegins, SignerStaysClosed, TimeStaysClosed
  DEF Next, SignerStep, SubmitStep, TypeOK
<1> QED
  BY <1>2, <1>3

\* Requests are not taken away, and links lapse one at a time.
LEMMA RequestsStay ==
  ASSUME DataTypeOK, CallTypeOK, Next, NEW d \in Docs
  PROVE  /\ req'[d].status = req[d].status \/ req'[d].status # "absent"
         /\ clock'[d].linkExpired =>
               clock[d].linkExpired \/ (req[d].status # "absent" /\ req' = req)
<1>1. ASSUME NEW e \in Docs, LinkLapses(e) \/ OtpAges(e)
      PROVE  /\ req' = req
             /\ clock'[d].linkExpired => clock[d].linkExpired \/ req[d].status # "absent"
  BY <1>1 DEF LinkLapses, OtpAges, rows, DataTypeOK, Clock
<1>2. ASSUME NEW c \in Calls,
             \/ DocumentStep(c) \/ RequestStep(c) \/ SignerStep(c) \/ SubmitStep(c) \/ Fail(c)
      PROVE  /\ req'[d].status = req[d].status \/ req'[d].status # "absent"
             /\ clock'[d].linkExpired = clock[d].linkExpired
  <2>1. CASE CreateCommit(c) \/ CancelCommit(c) \/ PreviewRequest(c) \/ VerifyRequest(c)
             \/ SubmitCommit(c) \/ VerifyWrong(c)
    <3>1. req \in [Docs -> ReqRow]
      BY DEF DataTypeOK
    <3>2. clock' = clock
      BY <2>1 DEF CreateCommit, CancelCommit, PreviewRequest, VerifyRequest, SubmitCommit,
                  VerifyWrong
    <3>3. CASE CreateCommit(c)
      BY <3>1, <3>2, <3>3 DEF CreateCommit, ReqRow
    <3>4. CASE CancelCommit(c)
      BY <3>1, <3>2, <3>4 DEF CancelCommit, ReqRow
    <3>5. CASE PreviewRequest(c)
      BY <3>1, <3>2, <3>5 DEF PreviewRequest, ReqRow
    <3>6. CASE VerifyRequest(c)
      BY <3>1, <3>2, <3>6 DEF VerifyRequest, ReqRow
    <3>7. CASE SubmitCommit(c)
      BY <3>1, <3>2, <3>7 DEF SubmitCommit, ReqRow, rows
    <3>8. CASE VerifyWrong(c)
      BY <3>1, <3>2, <3>8 DEF VerifyWrong, ReqRow
    <3> QED
      BY <2>1, <3>3, <3>4, <3>5, <3>6, <3>7, <3>8
  <2>2. CASE SendOtpStore(c)
    BY <2>2 DEF SendOtpStore, DataTypeOK, ReqRow, Clock
  <2>3. CASE DocumentStep(c) \/ RequestStep(c) \/ Fail(c)
    BY <2>1, <2>3
    DEF DocumentStep, RequestStep, Upload, GenerateFromTemplate, NewDocument, TenantRead,
        UploadAudit, GenerateAudit, TenantReadAudit, CreateRead, CancelRead,
        CreateAudit, CreateMail, CreateMailedAudit, CreateMailFailedAudit, CreateNotify,
        CancelAudit, Fail, AuditStep, rows
  <2>4. CASE SignerStep(c) \/ SubmitStep(c)
    BY <2>1, <2>2, <2>4
    DEF SignerStep, SubmitStep, PreviewRead, SendOtpRead, VerifyOtpRead, ViewRead, SubmitRead,
        PreviewAudit, PreviewDocument, SendOtpMail, SendOtpAudit, VerifyWrongAudit,
        VerifyDocument, VerifyAudit, ViewAudit, SubmitImage, SubmitDrawn, SubmitConsent,
        SubmitTrail, SubmitPdf, SubmitSignedAudit, SubmitGeneratedAudit, AuditStep, rows
  <2> QED
    BY <1>2, <2>3, <2>4
<1> QED
  BY <1>1, <1>2 DEF Next

LEMMA LapsedStep == TypeOK /\ LapsedRequested /\ [Next]_vars => LapsedRequested'
<1> SUFFICES ASSUME DataTypeOK, CallTypeOK, LapsedRequested, [Next]_vars, NEW d \in Docs,
                    clock'[d].linkExpired
             PROVE  req'[d].status # "absent"
  BY DEF TypeOK, LapsedRequested
<1>1. CASE UNCHANGED vars
  BY <1>1 DEF vars, LapsedRequested
<1>2. CASE Next
  BY <1>2, RequestsStay DEF LapsedRequested
<1> QED
  BY <1>1, <1>2

\* A closed request stays closed, is never signed and changes its status to nothing
\* but cancelled, for any documents and calls.
THEOREM ClosedStaysClosed == Spec => ClosedIsFinal
<1>1. Init => LapsedRequested
  BY DEF Init, LapsedRequested
<1>2. TypeOK /\ LapsedRequested /\ [Next]_vars =>
         [\A d \in Docs : Closed(d) =>
             /\ Closed(d)'
             /\ sig'[d] = sig[d]
             /\ req'[d].status \in {req[d].status, "cancelled"}]_vars
  <2> SUFFICES ASSUME TypeOK, LapsedRequested, [Next]_vars, NEW d \in Docs, Closed(d)
               PROVE  /\ Closed(d)'
                      /\ sig'[d] = sig[d]
                      /\ req'[d].status \in {req[d].status, "cancelled"}
    OBVIOUS
  <2>1. StaysClosed(d)
    BY EachStaysClosed
  <2> QED
    BY <2>1 DEF StaysClosed, Closed
<1> QED
  BY <1>1, <1>2, LapsedStep, TypeCorrect, PTL DEF Spec, ClosedIsFinal

-----------------------------------------------------------------------------
(* Refinement of SignEvidence.                                             *)

\* The abstract register of this module's state.
Unlocked == {d \in Docs : req[d].otpVerified}
Dossier == [d \in Docs |-> IF sig[d] = None THEN {} ELSE pdfs[sig[d]].trail]

LEMMA StutterCondition ==
  ASSUME sig' = sig,
         \A d \in Docs : req'[d].otpVerified = req[d].otpVerified,
         \A d \in Docs : sig[d] # None => pdfs'[sig[d]] = pdfs[sig[d]]
  PROVE  UNCHANGED Evidence!evidenceVars
<1>1. Unlocked' = Unlocked
  BY DEF Unlocked
<1>2. Dossier' = Dossier
  BY DEF Dossier
<1> QED
  BY <1>1, <1>2 DEF Evidence!evidenceVars, Unlocked, Dossier

LEMMA VerifyRequestUnlocks ==
  ASSUME DataTypeOK, CallTypeOK, NEW c \in Calls, VerifyRequest(c)
  PROVE  Evidence!Next
<1>1. call[c].doc \in Docs
  BY DEF VerifyRequest, At, CallTypeOK
<1>2. \A d \in Docs : req'[d].otpVerified = (req[d].otpVerified \/ d = call[c].doc)
  BY <1>1 DEF VerifyRequest, DataTypeOK, ReqRow
<1>3. Unlocked' = Unlocked \cup {call[c].doc}
  BY <1>1, <1>2 DEF Unlocked
<1>4. sig' = sig /\ Dossier' = Dossier
  BY DEF VerifyRequest, files, Dossier
<1>5. Evidence!Unlock(call[c].doc)
  BY <1>3, <1>4 DEF Evidence!Unlock, Unlocked, Dossier
<1> QED
  BY <1>1, <1>5 DEF Evidence!Next, Evidence!Unlock

LEMMA SubmitPdfStutters ==
  ASSUME DataTypeOK, CallTypeOK, EvidenceInv, NEW c \in Calls, SubmitPdf(c)
  PROVE  UNCHANGED Evidence!evidenceVars
<1>1. /\ call[c].step = "submit.pdf"
      /\ sig' = sig /\ req' = req
      /\ pdfs' = [pdfs EXCEPT ![call[c].sub] =
                     [written |-> TRUE, trail |-> call[c].trail]]
  BY DEF SubmitPdf, At, rows
<1>2. \A d \in Docs : sig[d] # call[c].sub
  BY <1>1 DEF EvidenceInv, SubmissionsOwned, Working
<1>3. \A d \in Docs : sig[d] # None => pdfs'[sig[d]] = pdfs[sig[d]]
  BY <1>1, <1>2 DEF DataTypeOK
<1> QED
  BY <1>1, <1>3, StutterCondition

LEMMA SubmitCommitSeals ==
  ASSUME DataTypeOK, CallTypeOK, EvidenceInv, NEW c \in Calls, SubmitCommit(c)
  PROVE  [Evidence!Next]_(Evidence!evidenceVars)
<1> DEFINE D == call[c].doc
           S == call[c].sub
<1>1. /\ call[c].step = "submit.commit" /\ D \in Docs
      /\ call[c] \in Call /\ pdfs' = pdfs
  BY DEF SubmitCommit, At, CallTypeOK, files
<1>2. /\ S \in Submissions /\ S # None /\ \A d \in Docs : sig[d] # S
  BY <1>1, ConstantsAssumption DEF EvidenceInv, SubmissionsOwned, Working, DataTypeOK
<1>3. /\ Required \subseteq call[c].trail /\ call[c].trail \in SUBSET Tracked
      /\ pdfs[S].trail = call[c].trail
      /\ req[D].otpVerified
  <2>1. call[c].trail \in SUBSET Tracked
    BY <1>1 DEF Call
  <2>2. /\ Required \subseteq call[c].trail
        /\ pdfs[S] = [written |-> TRUE, trail |-> call[c].trail]
    BY <1>1 DEF EvidenceInv, WorkRecorded
  <2>3. req[D].otpVerified
    BY <1>1 DEF EvidenceInv, CodesProved, Working
  <2> QED
    BY <2>1, <2>2, <2>3
<1>4. CASE sig[D] # None
  <2>1. sig' = sig /\ req' = req
    BY <1>4 DEF SubmitCommit, rows
  <2> QED
    BY <1>1, <2>1, StutterCondition
<1>5. CASE sig[D] = None
  <2>1. sig' = [sig EXCEPT ![D] = S] /\ req' = [req EXCEPT ![D].status = "signed"]
    BY <1>5 DEF SubmitCommit
  <2>2. \A d \in Docs : req'[d].otpVerified = req[d].otpVerified
    BY <1>1, <2>1 DEF DataTypeOK, ReqRow
  <2>3. Unlocked' = Unlocked /\ D \in Unlocked
    BY <1>1, <1>3, <2>2 DEF Unlocked
  <2>4. Dossier' = [Dossier EXCEPT ![D] = call[c].trail]
    BY <1>1, <1>2, <1>3, <2>1 DEF Dossier, DataTypeOK
  <2>5. Evidence!Seal(D, S, call[c].trail)
    BY <1>2, <1>3, <1>5, <2>1, <2>3, <2>4 DEF Evidence!Seal, Unlocked, Dossier
  <2> QED
    BY <1>1, <1>2, <1>3, <2>5 DEF Evidence!Next, Evidence!Seal
<1> QED
  BY <1>4, <1>5

LEMMA EvidenceRegisterStep ==
  TypeOK /\ EvidenceInv /\ [Next]_vars => [Evidence!Next]_(Evidence!evidenceVars)
<1> SUFFICES ASSUME DataTypeOK, CallTypeOK, EvidenceInv, [Next]_vars
             PROVE  [Evidence!Next]_(Evidence!evidenceVars)
  BY DEF TypeOK
<1>1. CASE Quiet
  BY <1>1, StutterCondition DEF Quiet, DataQuiet
<1>2. ASSUME NEW c \in Calls, NEW d \in Docs, VerifyOtpRead(c, d) \/ SubmitRead(c, d)
      PROVE  UNCHANGED Evidence!evidenceVars
  BY <1>2, StutterCondition DEF VerifyOtpRead, SubmitRead, rows, files
<1>3. ASSUME NEW c \in Calls, VerifyWrong(c)
      PROVE  UNCHANGED Evidence!evidenceVars
  BY <1>3, StutterCondition
  DEF VerifyWrong, files, At, DataTypeOK, CallTypeOK, ReqRow
<1>4. ASSUME NEW c \in Calls,
             \/ SubmitImage(c) \/ SubmitDrawn(c) \/ SubmitConsent(c) \/ SubmitTrail(c)
      PROVE  UNCHANGED Evidence!evidenceVars
  BY <1>4, StutterCondition
  DEF SubmitImage, SubmitDrawn, SubmitConsent, SubmitTrail, AuditStep, rows, files
<1>5. ASSUME NEW c \in Calls, VerifyRequest(c) \/ SubmitPdf(c) \/ SubmitCommit(c)
      PROVE  [Evidence!Next]_(Evidence!evidenceVars)
  BY <1>5, VerifyRequestUnlocks, SubmitPdfStutters, SubmitCommitSeals
<1> QED
  BY <1>1, <1>2, <1>3, <1>4, <1>5, StepKinds

\* The flow implements the write-once register: evidence, once sealed, is never
\* replaced, withdrawn or rewritten, and is sealed for unlocked documents only.
THEOREM EvidenceIsWriteOnce == Spec => EvidenceRegister
<1>1. Init => Evidence!Init
  BY DEF Init, Evidence!Init
<1>2. TypeOK /\ EvidenceInv /\ [Next]_vars => [Evidence!Next]_(Evidence!evidenceVars)
  BY EvidenceRegisterStep
<1> QED
  BY <1>1, <1>2, TypeCorrect, EvidenceInvariant, PTL
  DEF Spec, EvidenceRegister, Evidence!Spec

=============================================================================
