----------------------------- MODULE MediaDirect ----------------------------
(***************************************************************************)
(* Direct uploads to S3: Prepare reserves, Authorize presigns, the guest's *)
(* browser PUTs straight to the store, Complete verifies and finalizes.    *)
(***************************************************************************)
EXTENDS MediaUpload

(* ------------------------------ Prepare ------------------------------- *)

\* d is what the browser declares: a size and a media class.
PrepareBegin(p, e, s, d, r) ==
    /\ active = "s3"
    /\ d.kind \in Class /\ d.size \in 1..ServerLimit
    /\ BeginOpen(p, "prepare", e, [NoLocal EXCEPT !.session = s, !.size = d.size,
                                                  !.class = d.kind, !.request = r])

\* The row of an earlier attempt with the same session and request id.
Earlier(p) == {a \in OfSession(assets, loc[p].session) : assets[a].request = loc[p].request}

\* Metadata of a retry must match; an unclassified legacy row matches any class.
SameRequest(p, a) ==
    /\ assets[a].expected = loc[p].size
    /\ assets[a].class \in {None, loc[p].class}

PrepareAdmits(p) ==
    LET l == loc[p] IN
    /\ l.size <= fileLimit(events[l.ev].limits, l.class, ServerLimit)
    /\ reserve(assets, events[l.ev].limits, l.ev, l.session, l.class, l.size,
               SessionMaxAssets, SessionMaxBytes)

\* After the transaction the read lock is released and Authorize is called.
\* directLock looks the event up by its public id, which never moves to
\* another row: if the event is gone by then, loadDirect finds nothing either.
PrepareThenAuthorize(p, a) ==
    /\ loc' = [loc EXCEPT ![p] = [@ EXCEPT !.op = "authorize", !.at = a]]
    /\ UNCHANGED <<pc, lockVars>>

\* The transaction: an earlier attempt is returned, otherwise one is reserved.
\* A commit reported as failed returns an error to the guest, who may retry.
PrepareReserve(p, a) ==
    LET l == loc[p] IN
    /\ RLockReturns(p, "prepare")
    /\ checkOpen(l.ev, l.pub) /\ checkSession(l.session, l.ev)
    /\ \/ /\ a \in Earlier(p) /\ SameRequest(p, a)
          /\ UNCHANGED assets
          /\ PrepareThenAuthorize(p, a)
       \/ /\ Earlier(p) = {} /\ PrepareAdmits(p)
          /\ assets[a].status = "unused"
          /\ assets' = [assets EXCEPT ![a] =
                [NoAsset EXCEPT !.status = "pending", !.event = l.ev, !.session = l.session,
                                !.backend = "s3", !.expected = l.size, !.class = l.class,
                                !.request = l.request]]
          /\ PrepareThenAuthorize(p, a) \/ Return(p)
    /\ UNCHANGED <<events, sessions, retired, lastPub, storeVars, active, cursorVars>>

Prepare(p) ==
    \/ \E a \in Asset : PrepareReserve(p, a)
    \/ RLockReturns(p, "prepare") /\ FailAt(p, {"rlock"})

(* ----------------------------- directLock ----------------------------- *)

\* Authorize and Complete: the event exists (open or not), then both locks.
DirectBegin(p, o, e, s, a) ==
    /\ o \in Ops /\ pc[p] = "idle" /\ events[e].pub # 0
    /\ assets[a].status # "unused"
    /\ loc' = [loc EXCEPT ![p] = [NoLocal EXCEPT !.op = o, !.ev = e, !.pub = events[e].pub,
                                                 !.session = s, !.at = a]]
    /\ Goto(p, "rlock")
    /\ UNCHANGED <<dbVars, storeVars, active, lockVars, cursorVars>>

\* Event lock first, then wait for the asset's stripe.
DirectLock(p) ==
    /\ RLockReturns(p, loc[p].op) /\ loc[p].op \in {"authorize", "complete"}
    /\ KeepRLock(p)
    /\ Goto(p, "stripe")
    /\ UNCHANGED <<dbVars, storeVars, active, writer, stripes, cursorVars, loc>>

\* Mutant: completions of one asset run side by side.
StripeAlways(p, op) == pc[p] = "stripe" /\ loc[p].op = op
StripeFree(p, op) ==
    pc[p] = "stripe" /\ loc[p].op = op /\ stripes[StripeOf[loc[p].at]] = None
LockStripe(p) == stripes' = [stripes EXCEPT ![StripeOf[loc[p].at]] = p]

\* loadDirect: the row joined with its event, its session and an S3 backend.
Loads(p) ==
    LET l == loc[p]  row == assets[l.at] IN
    /\ HasRow(l.at) /\ row.backend = "s3"
    /\ row.event = l.ev /\ events[l.ev].pub = l.pub
    /\ row.session = l.session

(* ----------------------------- Authorize ------------------------------ *)

AuthorizeLoad(p) ==
    /\ StripeFree(p, "authorize") /\ LockStripe(p)
    /\ Loads(p) /\ assets[loc[p].at].status # "ready"
    /\ checkOpen(loc[p].ev, loc[p].pub)
    /\ Goto(p, "a_sign")
    /\ UNCHANGED <<dbVars, storeVars, active, readers, writer, cursorVars, loc>>

\* The URL is signed, the new expiry is saved, then the URL is handed out; a
\* commit reported as failed keeps the URL back.
AuthorizeSave(p) ==
    LET a == loc[p].at IN
    /\ pc[p] = "a_sign"
    /\ checkOpen(loc[p].ev, loc[p].pub) /\ checkSession(loc[p].session, loc[p].ev)
    /\ assets' = [assets EXCEPT ![a].stale = IF assets[a].status = "pending" THEN FALSE ELSE @]
    /\ urls' \in {urls, urls \cup {a}}
    /\ Return(p)
    /\ UNCHANGED <<events, sessions, retired, lastPub, objects, parts, active, cursorVars>>

Authorize(p) ==
    \/ AuthorizeLoad(p) \/ AuthorizeSave(p)
    \/ StripeFree(p, "authorize") /\ FailAt(p, {"stripe"})
    \/ FailAt(p, {"a_sign"})

\* Mutant: the signature does not include If-None-Match.
PutOverwrites(a) == a \in urls

\* A presigned URL carries If-None-Match: *, cannot be revoked, and whoever
\* holds it may send anything, also long after the server forgot the key.
PutAccepted(a) == a \in urls /\ objects[a] = None

GuestPut(a, b) ==
    /\ PutAccepted(a)
    /\ objects' = [objects EXCEPT ![a] = b]
    /\ UNCHANGED <<dbVars, parts, urls, active, lockVars, cursorVars, pc, loc>>

(* ------------------------------ Complete ------------------------------ *)

\* A ready row returns at once; the expectations are kept for verification.
CompleteLoad(p) ==
    LET row == assets[loc[p].at] IN
    /\ StripeFree(p, "complete") /\ LockStripe(p)
    /\ Loads(p) /\ ~events[loc[p].ev].deleting /\ row.status # "ready"
    /\ loc' = [loc EXCEPT ![p] = [@ EXCEPT !.size = row.expected, !.class = row.class]]
    /\ Goto(p, "f_head")
    /\ UNCHANGED <<dbVars, storeVars, active, readers, writer, cursorVars>>

\* HEAD: the size must be the declared one.
CompleteHead(p) ==
    LET b == objects[loc[p].at] IN
    /\ pc[p] = "f_head" /\ b # None
    /\ loc' = [loc EXCEPT ![p].body = b]
    /\ Goto(p, IF b.size = loc[p].size /\ b.size > 0 THEN "f_prefix" ELSE "f_reject")
    /\ UNCHANGED <<dbVars, storeVars, active, lockVars, cursorVars>>

\* GET of the prefix with If-Match: the object HEAD saw, or ErrObjectChanged.
CompletePrefix(p) ==
    LET b == loc[p].body IN
    /\ pc[p] = "f_prefix" /\ objects[loc[p].at] = b
    /\ Goto(p, IF Sniff(b) /\ loc[p].class \in {None, ClassOf(b)}
               THEN "f_commit" ELSE "f_reject")
    /\ UNCHANGED <<dbVars, storeVars, active, lockVars, cursorVars, loc>>

\* An invalid object is deleted, its row stays pending for another PUT.
CompleteReject(p) ==
    /\ pc[p] = "f_reject"
    /\ objects' = [objects EXCEPT ![loc[p].at] = None]
    /\ Return(p)
    /\ UNCHANGED <<dbVars, parts, urls, active, cursorVars>>

\* Mutant: a legacy row is finalized without a typed reservation.
CompleteAlways(p) == TRUE

\* A row without a class claims room in the typed bucket now.
CompleteAdmits(p) ==
    LET l == loc[p]  c == ClassOf(l.body) IN
    l.class = None =>
        /\ l.body.size <= fileLimit(events[l.ev].limits, c, ServerLimit)
        /\ reserveClass(assets, events[l.ev].limits, l.ev, c, l.body.size)

\* The finalizing transaction checks only that the event is not being deleted:
\* a closed event or an expired session may still finish.
CompleteCommit(p) ==
    LET l == loc[p]  a == l.at IN
    /\ pc[p] = "f_commit"
    /\ events[l.ev].pub = l.pub /\ ~events[l.ev].deleting
    /\ CompleteAdmits(p)
    /\ assets[a].status = "pending"
    /\ assets' = [assets EXCEPT ![a] = [@ EXCEPT !.status = "ready", !.size = l.body.size,
                                                !.class = ClassOf(l.body)]]
    /\ Return(p)
    /\ UNCHANGED <<events, sessions, retired, lastPub, storeVars, active, cursorVars>>

Complete(p) ==
    \/ CompleteLoad(p) \/ CompleteHead(p) \/ CompletePrefix(p)
    \/ CompleteReject(p) \/ CompleteCommit(p)
    \/ StripeFree(p, "complete") /\ FailAt(p, {"stripe"})
    \/ FailAt(p, {"f_head", "f_prefix", "f_reject", "f_commit"})

=============================================================================
