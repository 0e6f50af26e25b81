--------------------------- MODULE SignFlowTypes ----------------------------
(***************************************************************************)
(* Type correctness of SignFlow, for every set of documents, submissions   *)
(* and calls and every value of the limits.                                *)
(***************************************************************************)
EXTENDS SignFlow, TLAPS

\* Writing one column of one row keeps the table well typed.
LEMMA DocStatusType ==
  ASSUME doc \in [Docs -> DocRow], NEW d \in Docs, NEW st \in Status
  PROVE  [doc EXCEPT ![d].status = st] \in [Docs -> DocRow]
  BY DEF DocRow

LEMMA ReqStatusType ==
  ASSUME req \in [Docs -> ReqRow], NEW d \in Docs, NEW st \in Status
  PROVE  [req EXCEPT ![d].status = st] \in [Docs -> ReqRow]
  BY DEF ReqRow

\* The three ways a call moves keep the calls well typed.
LEMMA IdleType == IdleCall \in Call
  BY ConstantsAssumption DEF Call, IdleCall, Step

LEMMA BeginType ==
  ASSUME CallTypeOK, NEW c \in Calls, NEW d \in Docs, NEW step \in Step,
         step # "otp.mail", Begin(c, d, step)
  PROVE  CallTypeOK'
<1>1. [IdleCall EXCEPT !.step = step, !.doc = d] \in Call
  BY IdleType DEF Call, IdleCall
<1> QED
  BY <1>1 DEF CallTypeOK, Begin, IdleCall

LEMMA GotoType ==
  ASSUME CallTypeOK, NEW c \in Calls, NEW step \in Step, ~At(c, "idle"),
         step # "otp.mail", Goto(c, step)
  PROVE  CallTypeOK'
  BY DEF CallTypeOK, Call, Goto, At

LEMMA ReturnType ==
  ASSUME CallTypeOK, NEW c \in Calls, Return(c)
  PROVE  CallTypeOK'
  BY IdleType DEF CallTypeOK, Return, IdleCall

\* A step that writes one audit row, or nothing, keeps the data well typed.
LEMMA AuditStepType ==
  ASSUME DataTypeOK, CallTypeOK, NEW c \in Calls, NEW from, from # "idle",
         NEW event, AuditStep(c, from, event)
  PROVE  DataTypeOK'
  BY DEF DataTypeOK, CallTypeOK, AuditStep, RecordAudit, At, rows, files

LEMMA UnchangedType ==
  ASSUME DataTypeOK, UNCHANGED <<rows, files, audit, mail, clock>>
  PROVE  DataTypeOK'
  BY DEF DataTypeOK, rows, files

LEMMA TypeInit == Init => TypeOK
<1> SUFFICES ASSUME Init PROVE DataTypeOK /\ CallTypeOK
  BY DEF TypeOK
<1>1. DataTypeOK
  BY ConstantsAssumption
  DEF Init, DataTypeOK, DocRow, ReqRow, Pdf, NoPdf, Mail, Clock
<1>2. CallTypeOK
  BY IdleType DEF Init, CallTypeOK, IdleCall
<1> QED
  BY <1>1, <1>2

LEMMA TypeStep == TypeOK /\ [Next]_vars => TypeOK'
<1> SUFFICES ASSUME DataTypeOK, CallTypeOK, [Next]_vars
             PROVE  DataTypeOK' /\ CallTypeOK'
  BY DEF TypeOK
<1>1. ASSUME NEW c \in Calls, NEW d \in Docs, Upload(c, d)
      PROVE  DataTypeOK' /\ CallTypeOK'
  <2>1. DataTypeOK'
    BY <1>1, DocStatusType
    DEF Upload, NewDocument, DataTypeOK, Status, files
  <2>2. CallTypeOK'
    BY <1>1, BeginType DEF Upload, NewDocument, Step
  <2> QED
    BY <2>1, <2>2
<1>2. ASSUME NEW c \in Calls, NEW d \in Docs, GenerateFromTemplate(c, d)
      PROVE  DataTypeOK' /\ CallTypeOK'
  <2>1. DataTypeOK'
    BY <1>2, DocStatusType
    DEF GenerateFromTemplate, NewDocument, DataTypeOK, Status, files
  <2>2. CallTypeOK'
    BY <1>2, BeginType DEF GenerateFromTemplate, NewDocument, Step
  <2> QED
    BY <2>1, <2>2
<1>3. ASSUME NEW c \in Calls, NEW d \in Docs, TenantRead(c, d)
      PROVE  DataTypeOK' /\ CallTypeOK'
  <2>1. DataTypeOK'
    BY <1>3, UnchangedType DEF TenantRead
  <2>2. CallTypeOK'
    BY <1>3, BeginType DEF TenantRead, Step
  <2> QED
    BY <2>1, <2>2
<1>4. ASSUME NEW c \in Calls, NEW d \in Docs, CreateRead(c, d)
      PROVE  DataTypeOK' /\ CallTypeOK'
  <2>1. DataTypeOK'
    BY <1>4, UnchangedType DEF CreateRead
  <2>2. CallTypeOK'
    BY <1>4, BeginType DEF CreateRead, Step
  <2> QED
    BY <2>1, <2>2
<1>5. ASSUME NEW c \in Calls, NEW d \in Docs, CancelRead(c, d)
      PROVE  DataTypeOK' /\ CallTypeOK'
  <2>1. DataTypeOK'
    BY <1>5, UnchangedType DEF CancelRead
  <2>2. CallTypeOK'
    BY <1>5, BeginType DEF CancelRead, Step
  <2> QED
    BY <2>1, <2>2
<1>6. ASSUME NEW c \in Calls, NEW d \in Docs, PreviewRead(c, d)
      PROVE  DataTypeOK' /\ CallTypeOK'
  <2>1. DataTypeOK'
    BY <1>6, UnchangedType DEF PreviewRead
  <2>3. [IdleCall EXCEPT !.step = "preview.audit", !.doc = d,
                         !.sent = (req[d].status = "sent")] \in Call
    BY IdleType DEF IdleCall, Call, Step
  <2>4. CallTypeOK'
    BY <1>6, <2>3 DEF PreviewRead, CallTypeOK, IdleCall
  <2> QED
    BY <2>1, <2>4
<1>7. ASSUME NEW c \in Calls, NEW d \in Docs, SendOtpRead(c, d)
      PROVE  DataTypeOK' /\ CallTypeOK'
  <2>1. DataTypeOK'
    BY <1>7, UnchangedType DEF SendOtpRead
  <2>2. CallTypeOK'
    BY <1>7, BeginType DEF SendOtpRead, Step
  <2> QED
    BY <2>1, <2>2
<1>8. ASSUME NEW c \in Calls, NEW d \in Docs, VerifyOtpRead(c, d)
      PROVE  DataTypeOK' /\ CallTypeOK'
  <2>1. DataTypeOK'
    BY <1>8, UnchangedType DEF VerifyOtpRead
  <2>2. CallTypeOK'
    BY <1>8, BeginType DEF VerifyOtpRead, Step
  <2> QED
    BY <2>1, <2>2
<1>9. ASSUME NEW c \in Calls, NEW d \in Docs, ViewRead(c, d)
      PROVE  DataTypeOK' /\ CallTypeOK'
  <2>1. DataTypeOK'
    BY <1>9, UnchangedType DEF ViewRead
  <2>2. CallTypeOK'
    BY <1>9, BeginType DEF ViewRead, Step
  <2> QED
    BY <2>1, <2>2
<1>10. ASSUME NEW c \in Calls, NEW d \in Docs, SubmitRead(c, d)
      PROVE  DataTypeOK' /\ CallTypeOK'
  <2>1. DataTypeOK'
    BY <1>10, UnchangedType DEF SubmitRead
  <2>2. CallTypeOK'
    BY <1>10, BeginType DEF SubmitRead, Step
  <2> QED
    BY <2>1, <2>2
<1>11. ASSUME NEW c \in Calls, UploadAudit(c)
      PROVE  DataTypeOK' /\ CallTypeOK'
  <2>1. DataTypeOK'
    BY <1>11, AuditStepType DEF UploadAudit
  <2>3. CallTypeOK'
    BY <1>11, GotoType, ReturnType DEF UploadAudit, AuditStep, At, Step
  <2> QED
    BY <2>1, <2>3
<1>12. ASSUME NEW c \in Calls, GenerateAudit(c)
      PROVE  DataTypeOK' /\ CallTypeOK'
  <2>1. DataTypeOK'
    BY <1>12, AuditStepType DEF GenerateAudit
  <2>3. CallTypeOK'
    BY <1>12, GotoType, ReturnType DEF GenerateAudit, AuditStep, At, Step
  <2> QED
    BY <2>1, <2>3
<1>13. ASSUME NEW c \in Calls, TenantReadAudit(c)
      PROVE  DataTypeOK' /\ CallTypeOK'
  <2>1. DataTypeOK'
    BY <1>13, AuditStepType DEF TenantReadAudit
  <2>3. CallTypeOK'
    BY <1>13, GotoType, ReturnType DEF TenantReadAudit, AuditStep, At, Step
  <2> QED
    BY <2>1, <2>3
<1>14. ASSUME NEW c \in Calls, CreateCommit(c)
      PROVE  DataTypeOK' /\ CallTypeOK'
  <2>1. call[c].doc \in Docs
    BY <1>14 DEF CreateCommit, CallTypeOK, At
  <2>1a. "sent" \in Status
    BY DEF Status
  <2>1b. doc' \in [Docs -> DocRow] /\ req' \in [Docs -> ReqRow]
    BY <1>14, <2>1, <2>1a, DocStatusType, ReqStatusType DEF CreateCommit, DataTypeOK
  <2>2. DataTypeOK'
    BY <1>14, <2>1b DEF CreateCommit, DataTypeOK, files
  <2>3. CallTypeOK'
    BY <1>14, GotoType, ReturnType DEF CreateCommit, At, Step
  <2> QED
    BY <2>2, <2>3
<1>15. ASSUME NEW c \in Calls, CreateAudit(c)
      PROVE  DataTypeOK' /\ CallTypeOK'
  <2>1. DataTypeOK'
    BY <1>15, AuditStepType DEF CreateAudit
  <2>3. CallTypeOK'
    BY <1>15, GotoType, ReturnType DEF CreateAudit, AuditStep, At, Step
  <2> QED
    BY <2>1, <2>3
<1>16. ASSUME NEW c \in Calls, CreateMail(c)
      PROVE  DataTypeOK' /\ CallTypeOK'
  <2>1. call[c].doc \in Docs
    BY <1>16 DEF CreateMail, CallTypeOK, At
  <2>2. DataTypeOK'
    <3>1. [mail[call[c].doc] EXCEPT !.link = TRUE] \in Mail
      BY <2>1 DEF DataTypeOK, Mail
    <3>2. mail' \in [Docs -> Mail]
      BY <1>16, <2>1, <3>1 DEF CreateMail, DataTypeOK
    <3> QED
      BY <1>16, <3>2 DEF CreateMail, DataTypeOK, rows, files
  <2>3. CallTypeOK'
    BY <1>16, GotoType, ReturnType DEF CreateMail, At, Step
  <2> QED
    BY <2>2, <2>3
<1>17. ASSUME NEW c \in Calls, CreateMailedAudit(c)
      PROVE  DataTypeOK' /\ CallTypeOK'
  <2>1. DataTypeOK'
    BY <1>17, AuditStepType, UnchangedType DEF CreateMailedAudit
  <2>3. CallTypeOK'
    BY <1>17, GotoType, ReturnType DEF CreateMailedAudit, AuditStep, At, Step
  <2> QED
    BY <2>1, <2>3
<1>18. ASSUME NEW c \in Calls, CreateMailFailedAudit(c)
      PROVE  DataTypeOK' /\ CallTypeOK'
  <2>1. DataTypeOK'
    BY <1>18, AuditStepType DEF CreateMailFailedAudit
  <2>3. CallTypeOK'
    BY <1>18, GotoType, ReturnType DEF CreateMailFailedAudit, AuditStep, At, Step
  <2> QED
    BY <2>1, <2>3
<1>19. ASSUME NEW c \in Calls, CreateNotify(c)
      PROVE  DataTypeOK' /\ CallTypeOK'
  <2>1. call[c].doc \in Docs
    BY <1>19 DEF CreateNotify, CallTypeOK, At
  <2>2. mail' \in [Docs -> Mail]
    <3>1. mail[call[c].doc] \in Mail
      BY <2>1 DEF DataTypeOK
    <3>2. \A m \in Mail : /\ [m EXCEPT !.link = TRUE] \in Mail
                          /\ [m EXCEPT !.link = TRUE, !.notified = TRUE] \in Mail
      BY DEF Mail
    <3> QED
      BY <1>19, <2>1, <3>1, <3>2 DEF CreateNotify, DataTypeOK
  <2>2b. DataTypeOK'
    BY <1>19, <2>2 DEF CreateNotify, DataTypeOK, rows, files
  <2>3. CallTypeOK'
    BY <1>19, GotoType, ReturnType DEF CreateNotify, At, Step
  <2> QED
    BY <2>2b, <2>3
<1>20. ASSUME NEW c \in Calls, CancelCommit(c)
      PROVE  DataTypeOK' /\ CallTypeOK'
  <2>1. call[c].doc \in Docs
    BY <1>20 DEF CancelCommit, CallTypeOK, At
  <2>2. DataTypeOK'
    BY <1>20, <2>1, DocStatusType, ReqStatusType
    DEF CancelCommit, DataTypeOK, Status, files
  <2>3. CallTypeOK'
    BY <1>20, GotoType, ReturnType DEF CancelCommit, At, Step
  <2> QED
    BY <2>2, <2>3
<1>21. ASSUME NEW c \in Calls, CancelAudit(c)
      PROVE  DataTypeOK' /\ CallTypeOK'
  <2>1. DataTypeOK'
    BY <1>21, AuditStepType DEF CancelAudit
  <2>3. CallTypeOK'
    BY <1>21, GotoType, ReturnType DEF CancelAudit, AuditStep, At, Step
  <2> QED
    BY <2>1, <2>3
<1>22. ASSUME NEW c \in Calls, PreviewAudit(c)
      PROVE  DataTypeOK' /\ CallTypeOK'
  <2>1. DataTypeOK'
    BY <1>22, AuditStepType DEF PreviewAudit
  <2>3. CallTypeOK'
    BY <1>22, GotoType, ReturnType DEF PreviewAudit, AuditStep, At, Step
  <2> QED
    BY <2>1, <2>3
<1>23. ASSUME NEW c \in Calls, PreviewRequest(c)
      PROVE  DataTypeOK' /\ CallTypeOK'
  <2>1. call[c].doc \in Docs
    BY <1>23 DEF PreviewRequest, CallTypeOK, At
  <2>2. DataTypeOK'
    BY <1>23, <2>1, ReqStatusType DEF PreviewRequest, DataTypeOK, Status, files
  <2>3. CallTypeOK'
    BY <1>23, GotoType, ReturnType DEF PreviewRequest, At, Step
  <2> QED
    BY <2>2, <2>3
<1>24. ASSUME NEW c \in Calls, PreviewDocument(c)
      PROVE  DataTypeOK' /\ CallTypeOK'
  <2>1. call[c].doc \in Docs
    BY <1>24 DEF PreviewDocument, CallTypeOK, At
  <2>2. DataTypeOK'
    BY <1>24, <2>1, DocStatusType DEF PreviewDocument, DataTypeOK, Status, files
  <2>3. CallTypeOK'
    BY <1>24, GotoType, ReturnType DEF PreviewDocument, At, Step
  <2> QED
    BY <2>2, <2>3
<1>25. ASSUME NEW c \in Calls, SendOtpStore(c)
      PROVE  DataTypeOK' /\ CallTypeOK'
  <2>1. call[c].doc \in Docs
    BY <1>25 DEF SendOtpStore, CallTypeOK, At
  <2>2. req[call[c].doc].otp + 1 \in Codes
    <3>1. req[call[c].doc].otp \in 0 .. MaxCodes
      BY <2>1 DEF DataTypeOK, ReqRow
    <3> QED
      BY <1>25, <3>1, ConstantsAssumption DEF SendOtpStore, Codes
  <2>2a. [req[call[c].doc] EXCEPT
                     !.otp = req[call[c].doc].otp + 1, !.otpAttempts = 0] \in ReqRow
    <3>1. /\ req[call[c].doc] \in ReqRow
          /\ req[call[c].doc].otp + 1 \in 0 .. MaxCodes
      BY <2>1, <2>2, ConstantsAssumption DEF DataTypeOK, Codes
    <3> QED
      BY <3>1 DEF ReqRow
  <2>3. req' \in [Docs -> ReqRow]
    <3> DEFINE row == [req[call[c].doc] EXCEPT
                     !.otp = req[call[c].doc].otp + 1, !.otpAttempts = 0]
    <3>1. req' = [req EXCEPT ![call[c].doc] = row]
      BY <1>25 DEF SendOtpStore
    <3>2. row \in ReqRow
      BY <2>2a
    <3> HIDE DEF row
    <3> QED
      BY <2>1, <3>1, <3>2 DEF DataTypeOK
  <2>4. DataTypeOK'
    BY <1>25, <2>1, <2>3 DEF SendOtpStore, DataTypeOK, Clock, files
  <2>4a. [call[c] EXCEPT !.step = "otp.mail",
                         !.code = req[call[c].doc].otp + 1] \in Call
    <3>1. /\ call[c] \in Call /\ "otp.mail" \in Step
          /\ req[call[c].doc].otp + 1 \in 0 .. MaxCodes
      BY <2>2, ConstantsAssumption DEF CallTypeOK, Codes, Step
    <3> QED
      BY <3>1 DEF Call
  <2>5. CallTypeOK'
    BY <1>25, <2>1, <2>2, <2>4a DEF SendOtpStore, CallTypeOK, Call, At
  <2> QED
    BY <2>4, <2>5
<1>26. ASSUME NEW c \in Calls, SendOtpMail(c)
      PROVE  DataTypeOK' /\ CallTypeOK'
  <2>1. call[c].doc \in Docs /\ call[c].code \in Codes
    BY <1>26 DEF SendOtpMail, CallTypeOK, At
  <2>2. DataTypeOK'
    BY <1>26, <2>1 DEF SendOtpMail, DataTypeOK, Mail, rows, files
  <2>3. CallTypeOK'
    BY <1>26, GotoType, ReturnType DEF SendOtpMail, At, Step
  <2> QED
    BY <2>2, <2>3
<1>27. ASSUME NEW c \in Calls, SendOtpAudit(c)
      PROVE  DataTypeOK' /\ CallTypeOK'
  <2>1. DataTypeOK'
    BY <1>27, AuditStepType DEF SendOtpAudit
  <2>3. CallTypeOK'
    BY <1>27, GotoType, ReturnType DEF SendOtpAudit, AuditStep, At, Step
  <2> QED
    BY <2>1, <2>3
<1>28. ASSUME NEW c \in Calls, VerifyWrong(c)
      PROVE  DataTypeOK' /\ CallTypeOK'
  <2>1. call[c].doc \in Docs
    BY <1>28 DEF VerifyWrong, CallTypeOK, At
  <2>2. req' \in [Docs -> ReqRow]
    <3>1. req[call[c].doc] \in ReqRow
      BY <2>1 DEF DataTypeOK
    <3>2. req[call[c].doc].otpAttempts + 1 \in Nat
      BY <3>1 DEF ReqRow
    <3>3. [req[call[c].doc] EXCEPT !.otpAttempts = req[call[c].doc].otpAttempts + 1]
              \in ReqRow
      BY <3>1, <3>2 DEF ReqRow
    <3>4. req' = [req EXCEPT ![call[c].doc] =
                    [req[call[c].doc] EXCEPT
                        !.otpAttempts = req[call[c].doc].otpAttempts + 1]]
      BY <1>28 DEF VerifyWrong
    <3> QED
      BY <2>1, <3>3, <3>4 DEF DataTypeOK
  <2>3. UNCHANGED <<doc, sig, images, pdfs, audit, mail, clock>>
    BY <1>28 DEF VerifyWrong, files
  <2>4. DataTypeOK'
    BY <2>2, <2>3 DEF DataTypeOK
  <2>5. CallTypeOK'
    BY <1>28, GotoType, ReturnType DEF VerifyWrong, At, Step
  <2> QED
    BY <2>4, <2>5
<1>29. ASSUME NEW c \in Calls, VerifyWrongAudit(c)
      PROVE  DataTypeOK' /\ CallTypeOK'
  <2>1. DataTypeOK'
    BY <1>29, AuditStepType DEF VerifyWrongAudit
  <2>3. CallTypeOK'
    BY <1>29, GotoType, ReturnType DEF VerifyWrongAudit, AuditStep, At, Step
  <2> QED
    BY <2>1, <2>3
<1>30. ASSUME NEW c \in Calls, VerifyRequest(c)
      PROVE  DataTypeOK' /\ CallTypeOK'
  <2>1. call[c].doc \in Docs
    BY <1>30 DEF VerifyRequest, CallTypeOK, At
  <2>2. DataTypeOK'
    <3>1. [req[call[c].doc] EXCEPT !.otpVerified = TRUE, !.status = "otp_verified"] \in ReqRow
      <4>1. \A r \in ReqRow : [r EXCEPT !.otpVerified = TRUE] \in ReqRow
        BY DEF ReqRow
      <4>2. \A r \in ReqRow : [r EXCEPT !.status = "otp_verified"] \in ReqRow
        BY DEF ReqRow, Status
      <4> QED
        BY <2>1, <4>1, <4>2 DEF DataTypeOK
    <3>2. req' \in [Docs -> ReqRow]
      BY <1>30, <2>1, <3>1 DEF VerifyRequest, DataTypeOK
    <3> QED
      BY <1>30, <3>2 DEF VerifyRequest, DataTypeOK, files
  <2>3. CallTypeOK'
    BY <1>30, GotoType, ReturnType DEF VerifyRequest, At, Step
  <2> QED
    BY <2>2, <2>3
<1>31. ASSUME NEW c \in Calls, VerifyDocument(c)
      PROVE  DataTypeOK' /\ CallTypeOK'
  <2>1. call[c].doc \in Docs
    BY <1>31 DEF VerifyDocument, CallTypeOK, At
  <2>2. DataTypeOK'
    BY <1>31, <2>1, DocStatusType DEF VerifyDocument, DataTypeOK, Status, files
  <2>3. CallTypeOK'
    BY <1>31, GotoType, ReturnType DEF VerifyDocument, At, Step
  <2> QED
    BY <2>2, <2>3
<1>32. ASSUME NEW c \in Calls, VerifyAudit(c)
      PROVE  DataTypeOK' /\ CallTypeOK'
  <2>1. DataTypeOK'
    BY <1>32, AuditStepType DEF VerifyAudit
  <2>3. CallTypeOK'
    BY <1>32, GotoType, ReturnType DEF VerifyAudit, AuditStep, At, Step
  <2> QED
    BY <2>1, <2>3
<1>33. ASSUME NEW c \in Calls, ViewAudit(c)
      PROVE  DataTypeOK' /\ CallTypeOK'
  <2>1. DataTypeOK'
    BY <1>33, AuditStepType DEF ViewAudit
  <2>3. CallTypeOK'
    BY <1>33, GotoType, ReturnType DEF ViewAudit, AuditStep, At, Step
  <2> QED
    BY <2>1, <2>3
<1>34. ASSUME NEW c \in Calls, SubmitImage(c)
      PROVE  DataTypeOK' /\ CallTypeOK'
  <2>1. DataTypeOK'
    BY <1>34 DEF SubmitImage, DataTypeOK, rows
  <2>2. PICK s \in Submissions : call' =
          [call EXCEPT ![c] = [@ EXCEPT !.step = "submit.drawn", !.sub = s]]
    BY <1>34 DEF SubmitImage
  <2>3. [call[c] EXCEPT !.step = "submit.drawn", !.sub = s] \in Call
    <3>1. call[c] \in Call /\ "submit.drawn" \in Step
      BY DEF CallTypeOK, Step
    <3> QED
      BY <3>1 DEF Call
  <2>4. CallTypeOK'
    BY <1>34, <2>2, <2>3 DEF SubmitImage, CallTypeOK, At
  <2> QED
    BY <2>1, <2>4
<1>35. ASSUME NEW c \in Calls, SubmitDrawn(c)
      PROVE  DataTypeOK' /\ CallTypeOK'
  <2>1. DataTypeOK'
    BY <1>35, AuditStepType DEF SubmitDrawn
  <2>3. CallTypeOK'
    BY <1>35, GotoType, ReturnType DEF SubmitDrawn, AuditStep, At, Step
  <2> QED
    BY <2>1, <2>3
<1>36. ASSUME NEW c \in Calls, SubmitConsent(c)
      PROVE  DataTypeOK' /\ CallTypeOK'
  <2>1. DataTypeOK'
    BY <1>36, AuditStepType DEF SubmitConsent
  <2>3. CallTypeOK'
    BY <1>36, GotoType, ReturnType DEF SubmitConsent, AuditStep, At, Step
  <2> QED
    BY <2>1, <2>3
<1>37. ASSUME NEW c \in Calls, SubmitTrail(c)
      PROVE  DataTypeOK' /\ CallTypeOK'
  <2>1. DataTypeOK'
    BY <1>37, UnchangedType DEF SubmitTrail
  <2>3. audit[call[c].doc] \in SUBSET Tracked
    BY <1>37 DEF SubmitTrail, CallTypeOK, DataTypeOK, At
  <2>3a. [call[c] EXCEPT !.step = "submit.pdf", !.trail = audit[call[c].doc]] \in Call
    <3>1. call[c] \in Call /\ "submit.pdf" \in Step
      BY DEF CallTypeOK, Step
    <3> QED
      BY <2>3, <3>1 DEF Call
  <2>4. CallTypeOK'
    BY <1>37, <2>3a DEF SubmitTrail, CallTypeOK, At
  <2> QED
    BY <2>1, <2>4
<1>38. ASSUME NEW c \in Calls, SubmitPdf(c)
      PROVE  DataTypeOK' /\ CallTypeOK'
  <2>1. call[c].trail \in SUBSET Tracked
    BY DEF CallTypeOK, Call
  <2>2. DataTypeOK'
    BY <1>38, <2>1 DEF SubmitPdf, DataTypeOK, Pdf, rows
  <2>3. CallTypeOK'
    BY <1>38, GotoType, ReturnType DEF SubmitPdf, At, Step
  <2> QED
    BY <2>2, <2>3
<1>39. ASSUME NEW c \in Calls, SubmitCommit(c)
      PROVE  DataTypeOK' /\ CallTypeOK'
  <2>1. call[c].doc \in Docs /\ call[c].sub \in Submissions \cup {None}
    BY <1>39 DEF SubmitCommit, CallTypeOK, Call, At
  <2>2a. [doc EXCEPT ![call[c].doc] = [status |-> "signed",
                                     signedFile |-> call[c].sub]] \in [Docs -> DocRow]
    BY <2>1 DEF DataTypeOK, DocRow, Status
  <2>2b. "signed" \in Status
    BY DEF Status
  <2>2c. doc' \in [Docs -> DocRow]
    BY <1>39, <2>2a DEF SubmitCommit, DataTypeOK, rows
  <2>2d. req' \in [Docs -> ReqRow]
    BY <1>39, <2>1, <2>2b, ReqStatusType DEF SubmitCommit, DataTypeOK, rows
  <2>2e. sig' \in [Docs -> Submissions \cup {None}]
    BY <1>39, <2>1 DEF SubmitCommit, DataTypeOK, rows
  <2>2. DataTypeOK'
    BY <1>39, <2>2c, <2>2d, <2>2e DEF SubmitCommit, DataTypeOK, files
  <2>3. CallTypeOK'
    BY <1>39, GotoType, ReturnType DEF SubmitCommit, At, Step
  <2> QED
    BY <2>2, <2>3
<1>40. ASSUME NEW c \in Calls, SubmitSignedAudit(c)
      PROVE  DataTypeOK' /\ CallTypeOK'
  <2>1. DataTypeOK'
    BY <1>40, AuditStepType DEF SubmitSignedAudit
  <2>3. CallTypeOK'
    BY <1>40, GotoType, ReturnType DEF SubmitSignedAudit, AuditStep, At, Step
  <2> QED
    BY <2>1, <2>3
<1>41. ASSUME NEW c \in Calls, SubmitGeneratedAudit(c)
      PROVE  DataTypeOK' /\ CallTypeOK'
  <2>1. DataTypeOK'
    BY <1>41, AuditStepType DEF SubmitGeneratedAudit
  <2>3. CallTypeOK'
    BY <1>41, GotoType, ReturnType DEF SubmitGeneratedAudit, AuditStep, At, Step
  <2> QED
    BY <2>1, <2>3
<1>42. ASSUME NEW c \in Calls, Fail(c)
      PROVE  DataTypeOK' /\ CallTypeOK'
  <2>1. DataTypeOK'
    BY <1>42, UnchangedType DEF Fail
  <2>3. CallTypeOK'
    BY <1>42, GotoType, ReturnType DEF Fail, At, Step
  <2> QED
    BY <2>1, <2>3
<1>43. ASSUME NEW d \in Docs, LinkLapses(d)
      PROVE  DataTypeOK' /\ CallTypeOK'
  BY <1>43 DEF LinkLapses, DataTypeOK, CallTypeOK, Clock, rows, files
<1>44. ASSUME NEW d \in Docs, OtpAges(d)
      PROVE  DataTypeOK' /\ CallTypeOK'
  BY <1>44 DEF OtpAges, DataTypeOK, CallTypeOK, Clock, rows, files
<1>45. CASE UNCHANGED vars
  BY <1>45 DEF vars, DataTypeOK, CallTypeOK
<1> QED
  BY <1>1, <1>2, <1>3, <1>4, <1>5, <1>6, <1>7, <1>8, <1>9,
     <1>10, <1>11, <1>12, <1>13, <1>14, <1>15, <1>16, <1>17, <1>18,
     <1>19, <1>20, <1>21, <1>22, <1>23, <1>24, <1>25, <1>26, <1>27,
     <1>28, <1>29, <1>30, <1>31, <1>32, <1>33, <1>34, <1>35, <1>36,
     <1>37, <1>38, <1>39, <1>40, <1>41, <1>42, <1>43, <1>44, <1>45
  DEF Next, DocumentStep, RequestStep, SignerStep, SubmitStep

\* Every reachable state is well typed.
THEOREM TypeCorrect == Spec => []TypeOK
  BY TypeInit, TypeStep, PTL DEF Spec

=============================================================================
