------------------------------ MODULE SignFlow ------------------------------
(***************************************************************************)
(* The document-signing flow of the API (apps/api/src/sign): documents are *)
(* uploaded, sent to a signer by link, opened, unlocked with a one-time    *)
(* code and signed, or cancelled by the tenant.                            *)
(*                                                                         *)
(* The API keeps no lock across an await: each HTTP call is a sequence of  *)
(* database, storage and mail operations, and calls interleave between     *)
(* any two of them.  A call is therefore a small process, with one action  *)
(* per awaited operation; a Prisma $transaction([...]) is one action.      *)
(* Rows persist, a call does not: it may end at any await (Fail).          *)
(***************************************************************************)
EXTENDS Naturals, FiniteSets

CONSTANTS
    Docs,             \* SignDocument rows; a document has at most one request
    Submissions,      \* runs of submitSignature that reach storage (a bound)
    Calls,            \* HTTP calls in flight at once (a bound)
    None,             \* SQL NULL, and "no row" of the signature table
    MaxCodes,         \* one-time codes issued per request (a bound)
    OTP_MAX_ATTEMPTS, \* wrong codes after which verifyOtp refuses
    Tracked           \* the audit actions and notices the model keeps

\* The audit actions of the signing flow.  The signer's own view of the document
\* is told apart from a tenant user's (the code does so by target type);
\* crm.notification is the notice to the office, which is no audit action.
Event == {"sign.document.uploaded", "sign.document.generated_from_bank_template",
          "sign.document.downloaded", "sign.document.viewed",
          "sign.request.created", "sign.request.cancelled",
          "sign.email.sent", "sign.email.failed",
          "sign.link.opened", "sign.otp.sent", "sign.otp.failed",
          "sign.otp.verified", "signer.document.viewed",
          "sign.signature.drawn", "sign.consent.checked",
          "sign.document.signed", "sign.pdf.generated",
          "crm.notification"}

ASSUME ConstantsAssumption ==
    /\ None \notin Submissions /\ None \notin Docs
    /\ IsFiniteSet(Calls) /\ Calls # {}
    /\ MaxCodes \in Nat
    /\ OTP_MAX_ATTEMPTS \in Nat \ {0}
    /\ Tracked \subseteq Event

VARIABLES
    doc,        \* sign_documents
    req,        \* sign_signature_requests, by document (document_id is unique)
    sig,        \* sign_signatures, by document: the submission that created it
    images,     \* signature images in storage, by submission
    pdfs,       \* signed PDFs in storage, by submission
    audit,      \* tracked audit_logs actions about the document or its request
    mail,       \* what has left the API for a document
    clock,      \* the two deadlines of a request, as far as code can tell
    call        \* the calls in flight

vars == <<doc, req, sig, images, pdfs, audit, mail, clock, call>>
rows == <<doc, req, sig>>
files == <<images, pdfs>>

-----------------------------------------------------------------------------
(* Types.  "absent" stands for a row that does not exist.                  *)

Status == {"draft", "sent", "viewed", "otp_verified", "signed",
           "declined", "expired", "cancelled"}

Codes == 1 .. MaxCodes

Step == {"idle",
         "upload.audit", "generate.audit", "read.audit",
         "create.commit", "create.audit", "create.mail", "create.mailed",
         "create.mailFailed", "create.notify",
         "cancel.commit", "cancel.audit",
         "preview.audit", "preview.request", "preview.document",
         "otp.store", "otp.mail", "otp.audit",
         "verify.wrong", "verify.wrongAudit",
         "verify.request", "verify.document", "verify.audit",
         "view.audit",
         "submit.image", "submit.drawn", "submit.consent", "submit.trail",
         "submit.pdf", "submit.commit", "submit.signed", "submit.generated"}

NoPdf == [written |-> FALSE, trail |-> {}]
IdleCall == [step |-> "idle", doc |-> None, sent |-> FALSE,
             code |-> 0, sub |-> None, trail |-> {}]

DocRow == [status: Status \cup {"absent"}, signedFile: Submissions \cup {None}]
ReqRow == [status: Status \cup {"absent"}, otp: 0 .. MaxCodes,
           otpAttempts: Nat, otpVerified: BOOLEAN]
Pdf    == [written: BOOLEAN, trail: SUBSET Tracked]
Mail   == [link: BOOLEAN, codes: SUBSET Codes, notified: BOOLEAN]
Clock  == [linkExpired: BOOLEAN, otpAge: {"recent", "valid", "expired"}]
Call   == [step: Step, doc: Docs \cup {None}, sent: BOOLEAN,
           code: 0 .. MaxCodes, sub: Submissions \cup {None},
           trail: SUBSET Tracked]

DataTypeOK ==
    /\ doc \in [Docs -> DocRow]
    /\ req \in [Docs -> ReqRow]
    /\ sig \in [Docs -> Submissions \cup {None}]
    /\ images \in SUBSET Submissions
    /\ pdfs \in [Submissions -> Pdf]
    /\ audit \in [Docs -> SUBSET Tracked]
    /\ mail \in [Docs -> Mail]
    /\ clock \in [Docs -> Clock]

\* A call past its first step is about a document; a code being mailed has
\* been drawn.
CallTypeOK ==
    /\ call \in [Calls -> Call]
    /\ \A c \in Calls : call[c].step # "idle" => call[c].doc \in Docs
    /\ \A c \in Calls : call[c].step = "otp.mail" => call[c].code \in Codes

\* Rows, storage and calls hold what their columns and variables may hold.
TypeOK == DataTypeOK /\ CallTypeOK

Init ==
    /\ doc = [d \in Docs |-> [status |-> "absent", signedFile |-> None]]
    /\ req = [d \in Docs |-> [status |-> "absent", otp |-> 0,
                              otpAttempts |-> 0, otpVerified |-> FALSE]]
    /\ sig = [d \in Docs |-> None]
    /\ images = {}
    /\ pdfs = [s \in Submissions |-> NoPdf]
    /\ audit = [d \in Docs |-> {}]
    /\ mail = [d \in Docs |-> [link |-> FALSE, codes |-> {}, notified |-> FALSE]]
    /\ clock = [d \in Docs |-> [linkExpired |-> FALSE, otpAge |-> "expired"]]
    /\ call = [c \in Calls |-> IdleCall]

-----------------------------------------------------------------------------
(* Moving a call along.  A call rejected by one of its guards leaves no    *)
(* trace in the database, so a rejected call is not a step of the model.   *)

At(c, step) == call[c].step = step

Begin(c, d, step) ==
    /\ At(c, "idle")
    /\ call' = [call EXCEPT ![c] = [IdleCall EXCEPT !.step = step, !.doc = d]]

Goto(c, step) == call' = [call EXCEPT ![c].step = step]

Return(c) == call' = [call EXCEPT ![c] = IdleCall]

\* recordAudit: one awaited insert.
RecordAudit(d, event) ==
    audit' = [audit EXCEPT ![d] = @ \cup ({event} \cap Tracked)]

AuditStep(c, from, event) ==
    /\ At(c, from)
    /\ RecordAudit(call[c].doc, event)
    /\ UNCHANGED <<rows, files, mail, clock>>

\* Faulty variant: the cancelled status is not looked at.
ValidIgnoringCancel(d) ==
    req[d].status # "absent" /\ ~clock[d].linkExpired /\ mail[d].link

\* requireValidRequest: the link resolves, has not lapsed, is not cancelled.
\* Nobody can present a link that has not reached a person.
Valid(d) ==
    /\ req[d].status \notin {"absent", "cancelled"}
    /\ ~clock[d].linkExpired
    /\ mail[d].link

\* An awaited operation rejects or the process dies.  What the call has
\* already written stays; no service undoes it.
Fail(c) ==
    /\ ~At(c, "idle")
    /\ Return(c)
    /\ UNCHANGED <<rows, files, audit, mail, clock>>

-----------------------------------------------------------------------------
(* Documents: upload, generation from a bank template, tenant reads.       *)

NewDocument(c, d, step) ==
    /\ doc[d].status = "absent"
    /\ Begin(c, d, step)
    /\ doc' = [doc EXCEPT ![d].status = "draft"]
    /\ UNCHANGED <<req, sig, files, audit, mail, clock>>

Upload(c, d) == NewDocument(c, d, "upload.audit")
GenerateFromTemplate(c, d) == NewDocument(c, d, "generate.audit")

UploadAudit(c) ==
    AuditStep(c, "upload.audit", "sign.document.uploaded") /\ Return(c)

GenerateAudit(c) ==
    /\ AuditStep(c, "generate.audit", "sign.document.generated_from_bank_template")
    /\ Return(c)

\* download, inline and download-signed read a file first; the signed copy
\* only if there is one.
TenantRead(c, d) ==
    /\ doc[d].status # "absent"
    /\ Begin(c, d, "read.audit")
    /\ UNCHANGED <<rows, files, audit, mail, clock>>

TenantReadAudit(c) ==
    /\ \/ AuditStep(c, "read.audit", "sign.document.downloaded")
       \/ AuditStep(c, "read.audit", "sign.document.viewed")
    /\ Return(c)

-----------------------------------------------------------------------------
(* Signature requests, by the tenant's users.                              *)

CreateRead(c, d) ==
    /\ req[d].status = "absent"
    /\ doc[d].status = "draft"
    /\ Begin(c, d, "create.commit")
    /\ UNCHANGED <<rows, files, audit, mail, clock>>

\* The unique document_id makes a second insert roll the transaction back.
CreateCommit(c) ==
    LET d == call[c].doc IN
    /\ At(c, "create.commit")
    /\ \/ /\ req[d].status = "absent"
          /\ req' = [req EXCEPT ![d].status = "sent"]
          /\ doc' = [doc EXCEPT ![d].status = "sent"]
          /\ Goto(c, "create.audit")
       \/ /\ req[d].status # "absent"
          /\ Return(c)
          /\ UNCHANGED <<doc, req>>
    /\ UNCHANGED <<sig, files, audit, mail, clock>>

CreateAudit(c) ==
    /\ AuditStep(c, "create.audit", "sign.request.created")
    /\ Goto(c, "create.mail")

CreateMail(c) ==
    LET d == call[c].doc IN
    /\ At(c, "create.mail")
    /\ \/ /\ mail' = [mail EXCEPT ![d].link = TRUE]
          /\ Goto(c, "create.mailed")
       \/ /\ Goto(c, "create.mailFailed")
          /\ UNCHANGED mail
    /\ UNCHANGED <<rows, files, audit, clock>>

\* The email.sent insert sits in the same try block as the mail itself.
CreateMailedAudit(c) ==
    \/ /\ AuditStep(c, "create.mailed", "sign.email.sent")
       /\ Goto(c, "create.notify")
    \/ /\ At(c, "create.mailed")
       /\ Goto(c, "create.mailFailed")
       /\ UNCHANGED <<rows, files, audit, mail, clock>>

CreateMailFailedAudit(c) ==
    /\ AuditStep(c, "create.mailFailed", "sign.email.failed")
    /\ Goto(c, "create.notify")

\* The CRM notification is best effort; the answer carries the raw token.
CreateNotify(c) ==
    LET d == call[c].doc IN
    /\ At(c, "create.notify")
    /\ \/ mail' = [mail EXCEPT ![d].link = TRUE]
       \/ /\ "crm.notification" \in Tracked
          /\ mail' = [mail EXCEPT ![d] = [@ EXCEPT !.link = TRUE, !.notified = TRUE]]
    /\ Return(c)
    /\ UNCHANGED <<rows, files, audit, clock>>

CancelRead(c, d) ==
    /\ req[d].status \notin {"absent", "signed"}
    /\ Begin(c, d, "cancel.commit")
    /\ UNCHANGED <<rows, files, audit, mail, clock>>

\* Writes both rows whatever they hold by now.
CancelCommit(c) ==
    LET d == call[c].doc IN
    /\ At(c, "cancel.commit")
    /\ req' = [req EXCEPT ![d].status = "cancelled"]
    /\ doc' = [doc EXCEPT ![d].status = "cancelled"]
    /\ Goto(c, "cancel.audit")
    /\ UNCHANGED <<sig, files, audit, mail, clock>>

CancelAudit(c) ==
    AuditStep(c, "cancel.audit", "sign.request.cancelled") /\ Return(c)

-----------------------------------------------------------------------------
(* The signer's link: preview.                                             *)

PreviewRead(c, d) ==
    /\ Valid(d)
    /\ At(c, "idle")
    /\ call' = [call EXCEPT ![c] =
          [IdleCall EXCEPT !.step = "preview.audit", !.doc = d,
                           !.sent = (req[d].status = "sent")]]
    /\ UNCHANGED <<rows, files, audit, mail, clock>>

PreviewAudit(c) ==
    /\ AuditStep(c, "preview.audit", "sign.link.opened")
    /\ \/ call[c].sent /\ Goto(c, "preview.request")
       \/ ~call[c].sent /\ Return(c)

\* The status tested is the one PreviewRead saw.
PreviewRequest(c) ==
    /\ At(c, "preview.request")
    /\ req' = [req EXCEPT ![call[c].doc].status = "viewed"]
    /\ Goto(c, "preview.document")
    /\ UNCHANGED <<doc, sig, files, audit, mail, clock>>

PreviewDocument(c) ==
    /\ At(c, "preview.document")
    /\ doc' = [doc EXCEPT ![call[c].doc].status = "viewed"]
    /\ Return(c)
    /\ UNCHANGED <<req, sig, files, audit, mail, clock>>

-----------------------------------------------------------------------------
(* One-time codes.  A fresh code is the number after the last one stored.  *)

SendOtpRead(c, d) ==
    /\ Valid(d)
    /\ req[d].status # "signed"
    /\ req[d].otp = 0 \/ clock[d].otpAge # "recent"
    /\ Begin(c, d, "otp.store")
    /\ UNCHANGED <<rows, files, audit, mail, clock>>

SendOtpStore(c) ==
    LET d == call[c].doc IN
    /\ At(c, "otp.store")
    /\ req[d].otp < MaxCodes
    /\ req' = [req EXCEPT ![d] =
          [@ EXCEPT !.otp = req[d].otp + 1, !.otpAttempts = 0]]
    /\ clock' = [clock EXCEPT ![d].otpAge = "recent"]
    /\ call' = [call EXCEPT ![c] =
          [@ EXCEPT !.step = "otp.mail", !.code = req[d].otp + 1]]
    /\ UNCHANGED <<doc, sig, files, audit, mail>>

\* No try block here: a failed mail ends the call (Fail) with the code stored.
SendOtpMail(c) ==
    /\ At(c, "otp.mail")
    /\ mail' = [mail EXCEPT ![call[c].doc].codes = @ \cup {call[c].code}]
    /\ Goto(c, "otp.audit")
    /\ UNCHANGED <<rows, files, audit, clock>>

SendOtpAudit(c) == AuditStep(c, "otp.audit", "sign.otp.sent") /\ Return(c)

\* Faulty variant: no limit on wrong codes.
VerifyOtpReadUnlimited(c, d) ==
    /\ Valid(d)
    /\ req[d].otp # 0 /\ clock[d].otpAge # "expired"
    /\ \/ req[d].otp \in mail[d].codes /\ Begin(c, d, "verify.request")
       \/ Begin(c, d, "verify.wrong")
    /\ UNCHANGED <<rows, files, audit, mail, clock>>

\* The code the signer types is judged against the row as read here; the
\* right one can only be typed once it has been mailed.
VerifyOtpRead(c, d) ==
    /\ Valid(d)
    /\ req[d].otp # 0
    /\ clock[d].otpAge # "expired"
    /\ req[d].otpAttempts < OTP_MAX_ATTEMPTS
    /\ \/ req[d].otp \in mail[d].codes /\ Begin(c, d, "verify.request")
       \/ Begin(c, d, "verify.wrong")
    /\ UNCHANGED <<rows, files, audit, mail, clock>>

\* Faulty variant: counts the attempts left instead of those made.
VerifyWrongCountsDown(c) ==
    /\ At(c, "verify.wrong")
    /\ req' = [req EXCEPT ![call[c].doc].otpAttempts = @ - 1]
    /\ Goto(c, "verify.wrongAudit")
    /\ UNCHANGED <<doc, sig, files, audit, mail, clock>>

VerifyWrong(c) ==
    /\ At(c, "verify.wrong")
    /\ req' = [req EXCEPT ![call[c].doc].otpAttempts = @ + 1]
    /\ Goto(c, "verify.wrongAudit")
    /\ UNCHANGED <<doc, sig, files, audit, mail, clock>>

VerifyWrongAudit(c) ==
    AuditStep(c, "verify.wrongAudit", "sign.otp.failed") /\ Return(c)

VerifyRequest(c) ==
    /\ At(c, "verify.request")
    /\ req' = [req EXCEPT ![call[c].doc] =
                    [@ EXCEPT !.otpVerified = TRUE, !.status = "otp_verified"]]
    /\ Goto(c, "verify.document")
    /\ UNCHANGED <<doc, sig, files, audit, mail, clock>>

VerifyDocument(c) ==
    /\ At(c, "verify.document")
    /\ doc' = [doc EXCEPT ![call[c].doc].status = "otp_verified"]
    /\ Goto(c, "verify.audit")
    /\ UNCHANGED <<req, sig, files, audit, mail, clock>>

VerifyAudit(c) == AuditStep(c, "verify.audit", "sign.otp.verified") /\ Return(c)

\* getDocument: the signer's copy, behind the code.
ViewRead(c, d) ==
    /\ Valid(d)
    /\ req[d].otpVerified
    /\ Begin(c, d, "view.audit")
    /\ UNCHANGED <<rows, files, audit, mail, clock>>

ViewAudit(c) == AuditStep(c, "view.audit", "signer.document.viewed") /\ Return(c)

-----------------------------------------------------------------------------
(* submitSignature.                                                        *)

\* Faulty variant: signing does not ask for the one-time code.
SubmitReadUnverified(c, d) ==
    /\ Valid(d)
    /\ req[d].status # "signed"
    /\ Begin(c, d, "submit.image")
    /\ UNCHANGED <<rows, files, audit, mail, clock>>

SubmitRead(c, d) ==
    /\ Valid(d)
    /\ req[d].otpVerified
    /\ req[d].status # "signed"
    /\ Begin(c, d, "submit.image")
    /\ UNCHANGED <<rows, files, audit, mail, clock>>

\* storage.save draws a fresh file name.
SubmitImage(c) ==
    /\ At(c, "submit.image")
    /\ \E s \in Submissions \ images :
          /\ images' = images \cup {s}
          /\ call' = [call EXCEPT ![c] = [@ EXCEPT !.step = "submit.drawn", !.sub = s]]
    /\ UNCHANGED <<rows, pdfs, audit, mail, clock>>

SubmitDrawn(c) ==
    /\ AuditStep(c, "submit.drawn", "sign.signature.drawn")
    /\ Goto(c, "submit.consent")

SubmitConsent(c) ==
    /\ AuditStep(c, "submit.consent", "sign.consent.checked")
    /\ Goto(c, "submit.trail")

\* The audit trail read here is the one printed into the signed PDF.
SubmitTrail(c) ==
    /\ At(c, "submit.trail")
    /\ call' = [call EXCEPT ![c] =
          [@ EXCEPT !.step = "submit.pdf", !.trail = audit[call[c].doc]]]
    /\ UNCHANGED <<rows, files, audit, mail, clock>>

SubmitPdf(c) ==
    /\ At(c, "submit.pdf")
    /\ pdfs' = [pdfs EXCEPT ![call[c].sub] =
                    [written |-> TRUE, trail |-> call[c].trail]]
    /\ Goto(c, "submit.commit")
    /\ UNCHANGED <<rows, images, audit, mail, clock>>

\* Faulty variant: the signature row is replaced when there is one.
SubmitCommitReplaces(c) ==
    LET d == call[c].doc IN
    /\ At(c, "submit.commit")
    /\ doc' = [doc EXCEPT ![d] = [status |-> "signed", signedFile |-> call[c].sub]]
    /\ req' = [req EXCEPT ![d].status = "signed"]
    /\ sig' = [sig EXCEPT ![d] = call[c].sub]
    /\ Goto(c, "submit.signed")
    /\ UNCHANGED <<files, audit, mail, clock>>

\* Faulty variant: no transaction, so a refused signature leaves the document
\* pointing at the loser's file.
SubmitCommitPiecemeal(c) ==
    LET d == call[c].doc IN
    /\ At(c, "submit.commit")
    /\ doc' = [doc EXCEPT ![d] = [status |-> "signed", signedFile |-> call[c].sub]]
    /\ req' = [req EXCEPT ![d].status = "signed"]
    /\ \/ sig[d] = None /\ sig' = [sig EXCEPT ![d] = call[c].sub] /\ Goto(c, "submit.signed")
       \/ sig[d] # None /\ UNCHANGED sig /\ Return(c)
    /\ UNCHANGED <<files, audit, mail, clock>>

\* Both rows and the signature in one transaction.  The statuses are not
\* read again; only the unique document_id of the signature can stop it.
SubmitCommit(c) ==
    LET d == call[c].doc IN
    /\ At(c, "submit.commit")
    /\ \/ /\ sig[d] = None
          /\ doc' = [doc EXCEPT ![d] = [status |-> "signed",
                                        signedFile |-> call[c].sub]]
          /\ req' = [req EXCEPT ![d].status = "signed"]
          /\ sig' = [sig EXCEPT ![d] = call[c].sub]
          /\ Goto(c, "submit.signed")
       \/ /\ sig[d] # None
          /\ Return(c)
          /\ UNCHANGED rows
    /\ UNCHANGED <<files, audit, mail, clock>>

SubmitSignedAudit(c) ==
    /\ AuditStep(c, "submit.signed", "sign.document.signed")
    /\ Goto(c, "submit.generated")

SubmitGeneratedAudit(c) ==
    AuditStep(c, "submit.generated", "sign.pdf.generated") /\ Return(c)

-----------------------------------------------------------------------------
(* Time: a link lapses after seven days, a code is "recent" for a minute   *)
(* and valid for ten.                                                      *)

LinkLapses(d) ==
    /\ req[d].status # "absent"
    /\ ~clock[d].linkExpired
    /\ clock' = [clock EXCEPT ![d].linkExpired = TRUE]
    /\ UNCHANGED <<rows, files, audit, mail, call>>

OtpAges(d) ==
    /\ req[d].otp # 0
    /\ \/ /\ clock[d].otpAge = "recent"
          /\ clock' = [clock EXCEPT ![d].otpAge = "valid"]
       \/ /\ clock[d].otpAge = "valid"
          /\ clock' = [clock EXCEPT ![d].otpAge = "expired"]
    /\ UNCHANGED <<rows, files, audit, mail, call>>

-----------------------------------------------------------------------------

DocumentStep(c) ==
    \/ \E d \in Docs : Upload(c, d) \/ GenerateFromTemplate(c, d) \/ TenantRead(c, d)
    \/ UploadAudit(c) \/ GenerateAudit(c) \/ TenantReadAudit(c)

RequestStep(c) ==
    \/ \E d \in Docs : CreateRead(c, d) \/ CancelRead(c, d)
    \/ CreateCommit(c) \/ CreateAudit(c) \/ CreateMail(c)
    \/ CreateMailedAudit(c) \/ CreateMailFailedAudit(c) \/ CreateNotify(c)
    \/ CancelCommit(c) \/ CancelAudit(c)

SignerStep(c) ==
    \/ \E d \in Docs : PreviewRead(c, d) \/ SendOtpRead(c, d)
                       \/ VerifyOtpRead(c, d) \/ ViewRead(c, d)
    \/ PreviewAudit(c) \/ PreviewRequest(c) \/ PreviewDocument(c)
    \/ SendOtpStore(c) \/ SendOtpMail(c) \/ SendOtpAudit(c)
    \/ VerifyWrong(c) \/ VerifyWrongAudit(c)
    \/ VerifyRequest(c) \/ VerifyDocument(c) \/ VerifyAudit(c)
    \/ ViewAudit(c)

SubmitStep(c) ==
    \/ \E d \in Docs : SubmitRead(c, d)
    \/ SubmitImage(c) \/ SubmitDrawn(c) \/ SubmitConsent(c) \/ SubmitTrail(c)
    \/ SubmitPdf(c) \/ SubmitCommit(c) \/ SubmitSignedAudit(c)
    \/ SubmitGeneratedAudit(c)

Next ==
    \/ \E c \in Calls : DocumentStep(c) \/ RequestStep(c) \/ SignerStep(c)
                        \/ SubmitStep(c) \/ Fail(c)
    \/ \E d \in Docs : LinkLapses(d) \/ OtpAges(d)

Spec == Init /\ [][Next]_vars

-----------------------------------------------------------------------------
(* Correctness.                                                            *)

SubmitSteps == {"submit.image", "submit.drawn", "submit.consent", "submit.trail",
                "submit.pdf", "submit.commit", "submit.signed", "submit.generated"}
SignerSteps == SubmitSteps \cup
    {"preview.audit", "preview.request", "preview.document",
     "otp.store", "otp.mail", "otp.audit",
     "verify.wrong", "verify.wrongAudit", "verify.request", "verify.document",
     "verify.audit", "view.audit"}

\* What a submission must have on record before the document is signed.
Required == {"sign.signature.drawn", "sign.consent.checked"} \cap Tracked

\* The signature row, the document's signed file and storage agree: they come
\* from one and the same submission whatever submissions ran in parallel, no
\* submission signs two documents, and "signed" is never shown without them.
EvidenceConsistent ==
    /\ \A d \in Docs :
          /\ doc[d].signedFile = sig[d]
          /\ sig[d] # None => sig[d] \in images /\ pdfs[sig[d]].written
          /\ "signed" \in {doc[d].status, req[d].status} => sig[d] # None
    /\ \A d, e \in Docs : sig[d] = sig[e] /\ sig[d] # None => d = e

\* A signed document was unlocked with a code that had been mailed to the
\* signer, and its PDF prints the consent and the drawing of the signature.
EvidenceEarned ==
    \A d \in Docs :
        /\ sig[d] # None => /\ req[d].otpVerified
                            /\ Required \subseteq pdfs[sig[d]].trail
        /\ req[d].otpVerified => mail[d].codes # {}

\* Why the two hold, call by call: what a submission has done at each step.
\* A submission under way owns its file name; the audit rows it needs are
\* written before the trail is read, and the trail before the PDF is stored;
\* it runs only for an unlocked document, and unlocking follows a mailed code.
Working == {"submit.drawn", "submit.consent", "submit.trail", "submit.pdf",
            "submit.commit"}

SubmissionsOwned ==
    /\ \A c \in Calls : call[c].step \in Working =>
          /\ call[c].sub \in images
          /\ \A d \in Docs : sig[d] # call[c].sub
    /\ \A b, c \in Calls :
          /\ call[b].step \in Working /\ call[c].step \in Working
          /\ call[b].sub = call[c].sub
          => b = c

WorkRecorded ==
    \A c \in Calls :
        /\ call[c].step \in {"submit.consent", "submit.trail"} =>
              Required \ {"sign.consent.checked"} \subseteq audit[call[c].doc]
        /\ call[c].step = "submit.trail" => Required \subseteq audit[call[c].doc]
        /\ call[c].step \in {"submit.pdf", "submit.commit"} =>
              Required \subseteq call[c].trail
        /\ call[c].step = "submit.commit" =>
              pdfs[call[c].sub] = [written |-> TRUE, trail |-> call[c].trail]

CodesProved ==
    \A c \in Calls :
        /\ call[c].step = "verify.request" => mail[call[c].doc].codes # {}
        /\ call[c].step \in Working \cup {"submit.image"} =>
              req[call[c].doc].otpVerified

EvidenceInv ==
    /\ EvidenceConsistent /\ EvidenceEarned
    /\ SubmissionsOwned /\ WorkRecorded /\ CodesProved

\* Wrong codes are counted by an atomic increment but judged on a row read
\* earlier: the overshoot past OTP_MAX_ATTEMPTS is bounded by the calls in
\* flight.
AttemptsBounded ==
    \A d \in Docs :
        req[d].otpAttempts <= OTP_MAX_ATTEMPTS - 1 + Cardinality(Calls)

\* A request is closed once it is cancelled or its link has lapsed, and every
\* signer call that passed requireValidRequest before that has ended.
Closed(d) ==
    /\ req[d].status = "cancelled" \/ clock[d].linkExpired
    /\ \A c \in Calls : call[c].doc = d => call[c].step \notin SignerSteps

\* A closed request stays closed, is never signed afterwards and changes its
\* status to nothing but cancelled: a late click on the link does nothing.
ClosedIsFinal ==
    [][\A d \in Docs : Closed(d) =>
          /\ Closed(d)'
          /\ sig'[d] = sig[d]
          /\ req'[d].status \in {req[d].status, "cancelled"}]_vars

\* The flow implements the write-once evidence register of SignEvidence.
Evidence == INSTANCE SignEvidence WITH
    Events   <- Tracked,
    unlocked <- {d \in Docs : req[d].otpVerified},
    sealed   <- sig,
    dossier  <- [d \in Docs |-> IF sig[d] = None THEN {} ELSE pdfs[sig[d]].trail]

\* Evidence, once sealed, is never replaced, withdrawn or rewritten, and is
\* sealed only for an unlocked document (the abstract specification).
EvidenceRegister == Evidence!Spec

-----------------------------------------------------------------------------
(* Statements of the code and its schema that the interleavings refute.    *)

\* signature.service.ts: "Already signed - cannot cancel".
SignedNotCancelled ==
    \A d \in Docs : sig[d] # None => req[d].status # "cancelled"

\* public-sign.service.ts: a cancelled link is refused, "Link cancelled by
\* sender"; the request does not come back to life.
CancelledStaysCancelled ==
    [][\A d \in Docs : req[d].status = "cancelled" => req'[d].status = "cancelled"]_vars

=============================================================================
