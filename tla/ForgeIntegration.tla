-------------------------- MODULE ForgeIntegration --------------------------
(***************************************************************************)
(* Protected integration in the local bare forge, and the signed           *)
(* observation of its result.  Protections, checks, subjects and receipts  *)
(* are create-new files beside a bare repository; the target ref moves by  *)
(* git's compare-and-swap.  Several processes have the forge open and      *)
(* nothing locks it, so each file or git operation is a step; a process    *)
(* may die between two, and somebody else may move the target.             *)
(*                                                                         *)
(* One target.  Commits are numbers; a subject is a pair <<base, head>>    *)
(* (its id is a digest of both and the target).                            *)
(***************************************************************************)
EXTENDS Integers, FiniteSets

CONSTANTS
    FiProcs,     \* processes with the forge open
    FiCommits,   \* commits of the forge
    FiSubjects,  \* bound: the pairs <<base, head>> callers name
    FiRoots,     \* proof roots
    FiRequired,  \* bound: the proof roots protections are asked to require
    FiFaults,    \* bound: crashes and foreign moves of the target together
    FiHorizon,   \* bound: the observers' clock
    FiWindow     \* the freshness window of an observation

ASSUME FiWindow \in 1..FiHorizon

VARIABLES
    fi,   \* the forge: target, files
    fp,   \* the processes
    fo,   \* the latest signed observation, its consumer, the clock
    fh    \* the moves made, whether somebody else moved the target, faults

fiVars == <<fi, fp, fo, fh>>

----------------------------------------------------------------------------
\* What the validators look at.

RequireText == {"text_empty", "text_long", "text_control", "text_untrimmed"}
RequireTargetRef == {"not_a_branch", "candidate_ref", "ref_format"}
RequireOid == {"oid_syntax"}
RequireCommit == RequireOid \cup {"commit_absent"}
ValidateSubject == RequireCommit \cup RequireTargetRef \cup {"subject_id", "expected_old_differs"}
LoadAttestor == {"credential_kind", "credential_mode", "credential_size", "credential_swapped", "key_id_syntax"}
ValidateAttestationRequest == RequireOid \cup {"key_id_empty", "other_sha", "name_empty", "root_empty"}
ValidateObservationSubject ==
    {"proof_ids", "subject_id", "target_syntax", "oid_syntax", "check_of_other_commit",
     "check_of_other_root", "check_name"}
ConsistentOutcome == {"matched_other_oid", "mismatch_without_reason", "absent_with_oid", "survived_unmatched"}
ValidateObservationRecord ==
    ValidateObservationSubject \cup ConsistentOutcome
      \cup {"record_schema", "claims_eligibility", "other_observer", "observation_id"}
VerifyEnvelope == {"envelope_schema", "other_issuer", "other_key", "signature", "footer", "not_canonical", "record_differs"}
RequestDefects2 ==
    {"text_empty", "text_untrimmed", "not_a_branch", "candidate_ref", "oid_syntax", "commit_absent",
     "subject_id", "expected_old_differs"}
ObservationDefects ==
    {"proof_ids", "check_of_other_commit", "check_of_other_root", "matched_other_oid", "survived_unmatched",
     "claims_eligibility", "observation_id", "other_key", "signature", "record_differs"}

Capabilities == {"Supported", "SupportedWithLimitations", "Unsupported", "Unprobed"}
RequireProbed(c) == c \in {"Supported", "SupportedWithLimitations"}
LocalDescriptor ==
    [exact_oid_cas |-> "Supported", protected_refs |-> "SupportedWithLimitations",
     check_runs |-> "SupportedWithLimitations", merge_group |-> "Unsupported",
     exact_oid_readback |-> "Supported", third_party_credential |-> "Unsupported"]

\* The remote adapters and the attestor: what each answers to a call whose
\* arguments are sound (flaw "none") or not.
CandidateRefCalls == {"push_candidate_ref", "read_ref"}
IntegrationCalls ==
    {"read_protection", "publish_check", "read_check", "ensure_integration_subject",
     "integrate_protected", "merge_group_subject", "read_target"}
RefusedRef(op, flaw) == op \in CandidateRefCalls /\ flaw = "ref"
GitHubAnswer(op, flaw) == IF RefusedRef(op, flaw) THEN "RefDenied" ELSE "LiveAdmissionUnavailable"
JeryuAnswer(op, flaw) ==
    IF RefusedRef(op, flaw) THEN "RefDenied"
    ELSE IF op = "merge_group_subject" THEN "UnsupportedByAdapter" ELSE "LiveAdmissionUnavailable"
GitLabAnswer(op, flaw) == IF RefusedRef(op, flaw) THEN "RefDenied" ELSE "UnsupportedByAdapter"
AttestorAnswer(op, flaw) ==
    IF op = "push" THEN "UnsupportedByAdapter"
    ELSE IF flaw \in LoadAttestor THEN "ForgeUnauthenticated"
    ELSE IF flaw \in ValidateAttestationRequest THEN "CheckSubjectMismatch"
    ELSE "LiveAdmissionUnavailable"

\* No remote adapter, and not the attestor, ever does what it is asked: the
\* actions below are the only writers of a forge.
ASSUME OnlyTheLocalForgeWrites ==
    /\ \A op \in CandidateRefCalls \cup IntegrationCalls, f \in {"none", "ref"} :
         {GitHubAnswer(op, f), JeryuAnswer(op, f), GitLabAnswer(op, f)}
           \subseteq {"RefDenied", "LiveAdmissionUnavailable", "UnsupportedByAdapter"}
    /\ \A op \in {"push", "attest"}, f \in LoadAttestor \cup ValidateAttestationRequest \cup {"none"} :
         AttestorAnswer(op, f) \in {"ForgeUnauthenticated", "CheckSubjectMismatch",
                                    "LiveAdmissionUnavailable", "UnsupportedByAdapter"}
    /\ \A c \in DOMAIN LocalDescriptor :
         LocalDescriptor[c] \in Capabilities
           /\ (RequireProbed(LocalDescriptor[c]) <=> LocalDescriptor[c] # "Unsupported")

----------------------------------------------------------------------------
\* The forge.

\* git's ancestry, for the instance: commits descend from smaller ones.
IsAncestor(base, head) == base <= head


Resting == [pc |-> "idle", op |-> "none", subject |-> <<0, 0>>, root |-> "none"]

\* History: the target has held the observed head since the instant the
\* observation names.
Seen(target) ==
    fo' = [fo EXCEPT !.seen = @ \/ (fo.pc # "idle" /\ target = fo.subject[2])]

Next2(p, pc) == fp' = [fp EXCEPT ![p].pc = pc]
Quit(p) == fp' = [fp EXCEPT ![p] = Resting]
Begin(p, op, s, r, pc) == fp' = [fp EXCEPT ![p] = [pc |-> pc, op |-> op, subject |-> s, root |-> r]]

\* The file a call puts, and what it puts there.
FileOf(r) ==
    CASE r.op = "protect" -> fi.protection
      [] r.op = "check" -> fi.check[r.subject[2]]
      [] r.op = "subject" -> fi.subject[r.subject]
      [] OTHER -> fi.receipt[r.subject]
Stored(r, value) ==
    CASE r.op = "protect" -> [fi EXCEPT !.protection = value]
      [] r.op = "check" -> [fi EXCEPT !.check[r.subject[2]] = value]
      [] r.op = "subject" -> [fi EXCEPT !.subject[r.subject] = value]
      [] OTHER -> [fi EXCEPT !.receipt[r.subject] = value]

\* protect_target: the target exists, then its protection is put.
ProtectTarget(p, root, flaw) ==
    /\ fp[p].pc = "idle"
    /\ flaw \notin RequireTargetRef \cup RequireText
    /\ fi.target \in FiCommits
    /\ Begin(p, "protect", <<0, 0>>, root, "put")
    /\ UNCHANGED <<fi, fo, fh>>

\* publish_check: the commit is in the forge, then the check is put.
PublishCheck(p, head, root, flaw) ==
    /\ fp[p].pc = "idle"
    /\ flaw \notin RequireCommit \cup RequireText
    /\ Begin(p, "check", <<0, head>>, root, "put")
    /\ UNCHANGED <<fi, fo, fh>>

\* ensure_integration_subject: a recorded subject is returned; a new one needs
\* the target at its base.
EnsureSubject(p, s, flaw) ==
    /\ fp[p].pc = "idle"
    /\ flaw \notin RequireCommit \cup RequireTargetRef
    /\ IsAncestor(s[1], s[2])
    /\ fi.subject[s] = "absent"
    /\ fi.target = s[1]
    /\ Begin(p, "subject", s, "put", "put")
    /\ UNCHANGED <<fi, fo, fh>>

\* put: an existing record decides, else create-new and write.
PutNew(p) ==
    /\ fp[p].pc = "put"
    /\ IF FileOf(fp[p]) = "absent"
       THEN fi' = Stored(fp[p], "torn") /\ Next2(p, "write")
       ELSE Quit(p) /\ UNCHANGED fi
    /\ UNCHANGED <<fo, fh>>

PutWrite(p) ==
    /\ fp[p].pc = "write"
    /\ fi' = Stored(fp[p], fp[p].root)
    /\ Quit(p)
    /\ UNCHANGED <<fo, fh>>

\* integrate_protected, up to the target: the request names the recorded
\* subject and its base, the protection requires the request's proof root, the
\* check of the head carries it.
IntegrateProtected(p, s, root, flaw) ==
    /\ fp[p].pc = "idle"
    /\ flaw \notin ValidateSubject \cup RequireText
    /\ fi.subject[s] = "put"
    /\ Begin(p, "integrate", s, root, "protection")
    /\ UNCHANGED <<fi, fo, fh>>

ReadProtection(p) ==
    /\ fp[p].pc = "protection"
    /\ IF fi.protection = fp[p].root THEN Next2(p, "check") ELSE Quit(p)
    /\ UNCHANGED <<fi, fo, fh>>

ReadCheck(p) ==
    /\ fp[p].pc = "check"
    /\ IF fi.check[fp[p].subject[2]] = fp[p].root THEN Next2(p, "receipt") ELSE Quit(p)
    /\ UNCHANGED <<fi, fo, fh>>

\* A recorded receipt answers the call, while the target still is the head.
ReadReceipt(p) ==
    /\ fp[p].pc = "receipt"
    /\ IF fi.receipt[fp[p].subject] = "absent" THEN Next2(p, "observe") ELSE Quit(p)
    /\ UNCHANGED <<fi, fo, fh>>

\* Another value of the target ends the call: at the head already is an orphan
\* without a receipt, anything else a failed precondition.
ObserveTarget(p) ==
    /\ fp[p].pc = "observe"
    /\ IF fi.target = fp[p].subject[1] THEN Next2(p, "swap") ELSE Quit(p)
    /\ UNCHANGED <<fi, fo, fh>>

\* update-ref with the expected old value.
UpdateRef(p) ==
    /\ fp[p].pc = "swap"
    /\ IF fi.target = fp[p].subject[1]
       THEN /\ fi' = [fi EXCEPT !.target = fp[p].subject[2]]
            /\ fh' = [fh EXCEPT !.moves = @ \cup {fp[p].subject}]
            /\ Next2(p, "readback")
            /\ Seen(fp[p].subject[2])
       ELSE Quit(p) /\ UNCHANGED <<fi, fh, fo>>

\* The head is read back before the receipt is put.
ReadBack(p) ==
    /\ fp[p].pc = "readback"
    /\ IF fi.target = fp[p].subject[2] THEN Next2(p, "put") ELSE Quit(p)
    /\ UNCHANGED <<fi, fo, fh>>

FiDies(p) ==
    /\ fp[p].pc # "idle"
    /\ fh.faults < FiFaults
    /\ Quit(p)
    /\ fh' = [fh EXCEPT !.faults = @ + 1]
    /\ UNCHANGED <<fi, fo>>

\* Somebody else moves or deletes the target.
ForeignMove ==
    /\ fh.faults < FiFaults
    /\ \E t \in (FiCommits \cup {-1}) \ {fi.target} :
         /\ fi' = [fi EXCEPT !.target = t]
         /\ fh' = [fh EXCEPT !.faults = @ + 1, !.foreign = TRUE]
         /\ Seen(t)
    /\ UNCHANGED fp

----------------------------------------------------------------------------
\* Observation: the caller reads its clock, the observer reads the target and
\* signs, a consumer verifies later.

ClassifyReadback(target, head) ==
    IF target = head THEN "Matched" ELSE IF target = -1 THEN "Absent" ELSE "Mismatched"

\* The subject of an observation comes from an integration receipt.
BeginObservation(s, flaw) ==
    /\ fo.pc = "idle"
    /\ flaw \notin ValidateObservationSubject
    /\ fi.receipt[s] \in FiRoots
    /\ fo' = [fo EXCEPT !.pc = "reading", !.subject = s, !.at = fo.now,
                        !.seen = fi.target = s[2]]
    /\ UNCHANGED <<fi, fp, fh>>

Observe(unavailable) ==
    /\ fo.pc = "reading"
    /\ fo' = [fo EXCEPT !.pc = "signed",
                        !.outcome = IF unavailable THEN "Unknown"
                                    ELSE ClassifyReadback(fi.target, fo.subject[2])]
    /\ UNCHANGED <<fi, fp, fh>>

\* verify: envelope, signature, record, the expected subject, and the window.
VerifyObservation(expected, flaw) ==
    /\ fo.pc = "signed"
    /\ LET ok == /\ flaw \notin VerifyEnvelope \cup ValidateObservationRecord
                 /\ fo.subject = expected
                 /\ fo.now >= fo.at /\ fo.now < fo.at + FiWindow
       IN  /\ ok
           /\ fo' = [fo EXCEPT !.pc = "accepted", !.flawed = @ \/ flaw # "none"]
    /\ UNCHANGED <<fi, fp, fh>>

\* A signed observation is thrown away once it was used or not.
DropObservation ==
    /\ fo.pc \in {"signed", "accepted"}
    /\ fo' = [fo EXCEPT !.pc = "idle", !.subject = <<0, 0>>, !.at = 0,
                        !.outcome = "none", !.seen = FALSE]
    /\ UNCHANGED <<fi, fp, fh>>

ObserverTick ==
    /\ fo.now < FiHorizon
    /\ fo' = [fo EXCEPT !.now = @ + 1]
    /\ UNCHANGED <<fi, fp, fh>>

----------------------------------------------------------------------------
FiInit ==
    /\ fi = [target |-> 0, protection |-> "absent",
             check |-> [c \in FiCommits |-> "absent"],
             subject |-> [s \in FiSubjects |-> "absent"],
             receipt |-> [s \in FiSubjects |-> "absent"]]
    /\ fp = [p \in FiProcs |-> Resting]
    /\ fo = [pc |-> "idle", subject |-> <<0, 0>>, at |-> 0, outcome |-> "none",
             now |-> 0, flawed |-> FALSE, seen |-> FALSE]
    /\ fh = [moves |-> {}, faults |-> 0, foreign |-> FALSE]

FiCalls(procs, subjects) ==
    \/ \E p \in procs :
         \/ \E r \in FiRoots, f \in RequestDefects2 \cup {"none"} :
              \/ r \in FiRequired /\ ProtectTarget(p, r, f)
              \/ \E s \in subjects : PublishCheck(p, s[2], r, f) \/ IntegrateProtected(p, s, r, f)
         \/ \E s \in subjects, f \in RequestDefects2 \cup {"none"} : EnsureSubject(p, s, f)
         \/ PutNew(p) \/ PutWrite(p)
         \/ ReadProtection(p) \/ ReadCheck(p) \/ ReadReceipt(p)
         \/ ObserveTarget(p) \/ UpdateRef(p) \/ ReadBack(p) \/ FiDies(p)
    \/ ForeignMove

FiObservations(subjects) ==
    \/ \E s \in subjects, f \in ObservationDefects \cup {"none"} :
         BeginObservation(s, f) \/ VerifyObservation(s, f)
    \/ \E u \in BOOLEAN : Observe(u)
    \/ DropObservation
    \/ ObserverTick

\* Two instances: every process and subject without observers; one subject
\* with them, its calls one after the other.
FiIntegrationNext == FiCalls(FiProcs, FiSubjects)
FiObservationNext ==
    LET s == CHOOSE t \in FiSubjects : t[1] # t[2]
    IN  \/ \E p \in FiProcs : (\A q \in FiProcs \ {p} : fp[q] = Resting) /\ FiCalls({p}, {s})
        \/ FiObservations({s})

FiNext == FiCalls(FiProcs, FiSubjects) \/ FiObservations(FiSubjects)

FiSpec == FiInit /\ [][FiNext]_fiVars

----------------------------------------------------------------------------
\* The target moves, by this code, only to a head that has a recorded subject,
\* the protection's proof root and a check carrying it, although protection and
\* check were read several steps before the compare-and-swap: they are
\* create-once.  A receipt is written only for a move that was made, and, unless
\* somebody else moved the target back, no two subjects of one base were both
\* integrated.
IntegrationIsProven ==
    /\ \A s \in fh.moves :
         /\ fi.subject[s] = "put"
         /\ fi.protection \in FiRoots
         /\ fi.check[s[2]] = fi.protection
    /\ \A s \in FiSubjects :
         fi.receipt[s] \in FiRoots => s \in fh.moves /\ fi.receipt[s] = fi.protection
    /\ ~fh.foreign => \A s, t \in fh.moves : s[1] = t[1] /\ s[1] # s[2] /\ t[1] # t[2] => s = t

\* An accepted observation that says the integration survived is true of an
\* instant in its window at or after the one it names, and unread or foreign
\* values are never reported as survival.
ObservationIsTrue ==
    fo.pc = "accepted" =>
      /\ ~fo.flawed
      /\ fo.outcome = "Matched" => fo.seen

\* A record of the forge, once whole, never changes.
ForgeRecordsAreKept ==
    /\ fi.protection \in FiRoots => fi'.protection = fi.protection
    /\ \A c \in FiCommits : fi.check[c] \in FiRoots => fi'.check[c] = fi.check[c]
    /\ \A s \in FiSubjects : /\ fi.subject[s] = "put" => fi'.subject[s] = "put"
                            /\ fi.receipt[s] \in FiRoots => fi'.receipt[s] = fi.receipt[s]

FiSafe == IntegrationIsProven /\ ObservationIsTrue
=============================================================================
