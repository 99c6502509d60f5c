------------------------------ MODULE Registers ------------------------------
(***************************************************************************)
(* The registers of api/compliance.py: consent records, conflicts of       *)
(* interest with the independence check, data subject requests, breaches   *)
(* and methodology versions.  Each request is one session: it reads, and   *)
(* its commit sends an UPDATE of the columns that differ from what it has  *)
(* read.  One subject, one project and one row of each PATCHed register.   *)
(***************************************************************************)
EXTENDS Integers, Sequences, FiniteSets

CONSTANTS Clerks,        \* concurrent requests
          ConsentTypes,
          Officers,      \* users who disclose conflicts and ask for independence
          Versions,      \* versions of one methodology
          MaxConsents,   \* bound: consent records
          MaxConflicts,  \* bound: disclosures
          MaxPatches     \* bound: PATCH requests

ASSUME RegistersAssumption == {MaxConsents, MaxConflicts, MaxPatches} \subseteq Nat

VARIABLES consents,      \* consent_records in the order of their commits
          clock,         \* stamps given so far
          conflicts,     \* conflicts_of_interest: the user and the verdict
          checked,       \* the last answer of check_independence
          ticket,        \* a data subject request and a breach: status and stamps
          patches,       \* PATCH requests so far
          versions,      \* methodology_versions
          desk,          \* what each request has read or flushed
          committed,     \* history: the times committed to each stamp
          contested      \* history: stamps replaced by a request that had not read them

registerVars == <<consents, clock, conflicts, checked, ticket, patches, versions, desk, committed, contested>>

Away == [at |-> "idle"]

\* The statuses a PATCH may set, one for all that only set the status, and those that
\* set a time of their own.  A time of 0 is NULL.
TicketStatuses == [dsr |-> {"received", "under_review", "fulfilled"},
                   breach |-> {"detected", "contained", "notified_regulator",
                               "notified_subjects", "resolved"}]
Stamping == {"fulfilled", "notified_regulator", "notified_subjects", "resolved"}
Unstamped == [s \in Stamping |-> 0]

RegistersInit ==
    /\ consents = <<>> /\ clock = 0 /\ conflicts = <<>> /\ versions = {} /\ patches = 0
    /\ checked = [allowed |-> FALSE, by |-> CHOOSE u \in Officers : TRUE]
    /\ ticket = [dsr |-> [status |-> "received", stamps |-> Unstamped],
                 breach |-> [status |-> "detected", stamps |-> Unstamped]]
    /\ desk = [k \in Clerks |-> Away]
    /\ committed = [kind \in {"dsr", "breach"} |-> [s \in Stamping |-> {}]]
    /\ contested = {}

-----------------------------------------------------------------------------
\* granted_at is stamped when the row is flushed; a revocation is a row of its own.
FlushConsent(k, type, granted) ==
    /\ desk[k] = Away /\ clock < MaxConsents
    /\ clock' = clock + 1
    /\ desk' = [desk EXCEPT ![k] = [at |-> "consent",
                                    row |-> [type |-> type, granted |-> granted, at |-> clock']]]
    /\ UNCHANGED <<consents, conflicts, checked, ticket, patches, versions, committed, contested>>

CommitConsent(k) ==
    /\ desk[k].at = "consent"
    /\ consents' = Append(consents, desk[k].row)
    /\ desk' = [desk EXCEPT ![k] = Away]
    /\ UNCHANGED <<clock, conflicts, checked, ticket, patches, versions, committed, contested>>

Of(type) == {i \in DOMAIN consents : consents[i].type = type}

LatestConsent(type) == CHOOSE i \in Of(type) : \A j \in Of(type) : consents[i].at >= consents[j].at

\* get_consent_status, asked for one type; nothing sets revoked_at.
HasConsent(type) == Of(type) # {} /\ consents[LatestConsent(type)].granted

-----------------------------------------------------------------------------
DiscloseConflict(u) ==
    /\ Len(conflicts) < MaxConflicts
    /\ conflicts' = Append(conflicts, [user |-> u, verdict |-> "none"])
    /\ UNCHANGED <<consents, clock, checked, ticket, patches, versions, desk, committed, contested>>

\* A disclosure may be reviewed again: the last verdict counts.
ReviewConflict(i, verdict) ==
    /\ i \in DOMAIN conflicts
    /\ conflicts' = [conflicts EXCEPT ![i].verdict = verdict]
    /\ UNCHANGED <<consents, clock, checked, ticket, patches, versions, desk, committed, contested>>

Blocking(u) == {i \in DOMAIN conflicts : conflicts[i].user = u /\ conflicts[i].verdict # "approved"}

\* With two blocking disclosures scalar_one_or_none raises: nothing is allowed either.
CheckIndependence(u, drafting) ==
    /\ checked' = [allowed |-> Blocking(u) = {} /\ ~drafting, by |-> u]
    /\ UNCHANGED <<consents, clock, conflicts, ticket, patches, versions, desk, committed, contested>>

-----------------------------------------------------------------------------
\* update_dsr and update_breach: the row is read, the time is taken, the UPDATE commits.
ReadTicket(k, kind, status) ==
    /\ desk[k] = Away /\ patches < MaxPatches
    /\ desk' = [desk EXCEPT ![k] = [at |-> "read", kind |-> kind, status |-> status,
                                    seen |-> ticket[kind]]]
    /\ patches' = patches + 1
    /\ UNCHANGED <<consents, clock, conflicts, checked, ticket, versions, committed, contested>>

StampTicket(k) ==
    /\ desk[k].at = "read"
    /\ clock' = clock + 1
    /\ desk' = [desk EXCEPT ![k] = [at |-> "patch", kind |-> desk[k].kind, status |-> desk[k].status,
                                    seen |-> desk[k].seen, now |-> clock']]
    /\ UNCHANGED <<consents, conflicts, checked, ticket, patches, versions, committed, contested>>

\* Slip: every column is written as the request has it.
WholeRow(seen, row, status, now) ==
    [status |-> status, stamps |-> [seen.stamps EXCEPT ![status] = now]]

\* Only what the request has changed is written; each stamp is a column of its own, and
\* a later PATCH to the same status sets its time anew.
ChangedColumns(seen, row, status, now) ==
    [status |-> IF status = seen.status THEN row.status ELSE status,
     stamps |-> [row.stamps EXCEPT ![status] = now]]

CommitTicket(k) ==
    /\ desk[k].at = "patch"
    /\ LET d == desk[k]
           row == ticket[d.kind]
       IN /\ ticket' = [ticket EXCEPT ![d.kind] = ChangedColumns(d.seen, row, d.status, d.now)]
          /\ committed' = [committed EXCEPT ![d.kind] =
                               [s \in Stamping |-> IF s = d.status THEN @[s] \cup {d.now} ELSE @[s]]]
          /\ contested' = contested \cup {s \in Stamping \cap {d.status} :
                                              d.seen.stamps[s] # row.stamps[s]}
    /\ desk' = [desk EXCEPT ![k] = Away]
    /\ UNCHANGED <<consents, clock, conflicts, checked, patches, versions>>

\* The request ends before its commit.
ClerkGone(k) ==
    /\ desk[k] # Away
    /\ desk' = [desk EXCEPT ![k] = Away]
    /\ UNCHANGED <<consents, clock, conflicts, checked, ticket, patches, versions, committed, contested>>

-----------------------------------------------------------------------------
\* is_current is FALSE by default and nothing sets it.
CreateVersion(v) ==
    /\ v \notin {m.version : m \in versions}
    /\ versions' = versions \cup {[version |-> v, current |-> FALSE]}
    /\ UNCHANGED <<consents, clock, conflicts, checked, ticket, patches, desk, committed, contested>>

CurrentVersion == {m \in versions : m.current}

ConsentsNext ==
    \E k \in Clerks : \/ \E t \in ConsentTypes, g \in BOOLEAN : FlushConsent(k, t, g)
                     \/ CommitConsent(k) \/ ClerkGone(k)

ConflictsNext ==
    \/ \E u \in Officers : DiscloseConflict(u) \/ \E d \in BOOLEAN : CheckIndependence(u, d)
    \/ \E i \in 1..MaxConflicts, v \in {"approved", "refused"} : ReviewConflict(i, v)

TicketsNext ==
    \E k \in Clerks : \/ \E kind \in DOMAIN ticket : \E st \in TicketStatuses[kind] : ReadTicket(k, kind, st)
                     \/ StampTicket(k) \/ CommitTicket(k) \/ ClerkGone(k)

VersionsNext == \E v \in Versions : CreateVersion(v)

RegistersNext == ConsentsNext \/ ConflictsNext \/ TicketsNext \/ VersionsNext

RegistersSpec == RegistersInit /\ [][RegistersNext]_registerVars

\* Consent to a purpose stands only if it was given after every revocation of it, in
\* whatever order the requests commit (api/compliance.py:135).
RevocationSticks ==
    \A t \in ConsentTypes :
        HasConsent(t) => \E g \in Of(t) : /\ consents[g].granted
                                          /\ \A r \in Of(t) : ~consents[r].granted =>
                                                consents[r].at < consents[g].at

\* Whatever overlaps, the time at which a regulator or the subjects were told, or a request
\* fulfilled, is one that a request to that very status took: no other request writes back
\* what it has read; and unless two requests to the same status overlap, it is the last of
\* them (api/compliance.py:255, 366).  The first of these times is not kept.
StampsAreKept ==
    \A kind \in DOMAIN ticket : \A s \in Stamping :
        committed[kind][s] # {} =>
            /\ ticket[kind].stamps[s] \in committed[kind][s]
            /\ s \notin contested => \A t \in committed[kind][s] : t <= ticket[kind].stamps[s]

\* What the law counts on survives requests that overlap (api/compliance.py).
RegistersHold == RevocationSticks /\ StampsAreKept

\* A methodology that has versions has a current one (api/compliance.py:571).
CurrentIsFound == versions # {} => CurrentVersion # {}
=============================================================================
