----------------------------- MODULE Challenge ------------------------------
(***************************************************************************)
(* The admission of guests: server.createUploadSession with a Turnstile    *)
(* challenge, abuse.Turnstile.Verify and abuse.Validate.  The event may be *)
(* closed at any moment, and the verification service redeems a token once *)
(* but its answer may be lost.                                             *)
(***************************************************************************)
EXTENDS Integers, FiniteSets

CONSTANTS
    Guest,          \* requests for an upload session
    WidgetToken,    \* tokens the widget issued for this site and action
    ForeignToken,   \* valid tokens of another site or action
    ChallengeSlots  \* capacity of challengeSlots

ASSUME ChallengeAssumption ==
    ChallengeSlots \in Nat \ {0} /\ WidgetToken \cap ForeignToken = {}

VARIABLES
    open,           \* Event.Status = "open"
    guestPc, shown, \* of each request: where it is, and its token
    verdict,        \* of each request: what Verify returned
    slots,          \* places of challengeSlots that are taken
    redeemed,       \* external: tokens the service has accepted
    grants          \* upload sessions created: [guest, token]

challengeVars == <<open, guestPc, shown, verdict, slots, redeemed, grants>>

\* What Verify can return: an error, a failure, a success for us or for others.
Verdict == {"none", "unavailable", "duplicate", "ours", "foreign"}

ChallengeInit ==
    /\ open = TRUE /\ slots = 0 /\ redeemed = {} /\ grants = {}
    /\ guestPc = [g \in Guest |-> "new"]
    /\ shown = [g \in Guest |-> CHOOSE t \in WidgetToken : TRUE]
    /\ verdict = [g \in Guest |-> "none"]

At(g, l) == guestPc' = [guestPc EXCEPT ![g] = l]

\* Update, expiry or deletion of the event.
Closes == open /\ open' = FALSE /\ UNCHANGED <<guestPc, shown, verdict, slots, redeemed, grants>>

\* The request with its token; GetPublic and Status before anything is spent.
CheckOpen(g, t) ==
    /\ guestPc[g] = "new"
    /\ shown' = [shown EXCEPT ![g] = t]
    /\ At(g, IF open THEN "slot" ELSE "refused")
    /\ UNCHANGED <<open, verdict, slots, redeemed, grants>>

\* select { case challengeSlots <- ...: default: 429 }
TakeSlot(g) ==
    /\ guestPc[g] = "slot"
    /\ \/ slots < ChallengeSlots /\ slots' = slots + 1 /\ At(g, "verify")
       \/ slots >= ChallengeSlots /\ At(g, "refused") /\ UNCHANGED slots
    /\ UNCHANGED <<open, shown, verdict, redeemed, grants>>

\* External: siteverify accepts a token once; the answer arrives or does not.
Redeem(g) ==
    /\ guestPc[g] = "verify"
    /\ \/ /\ redeemed' = redeemed \cup {shown[g]}
          /\ \E v \in {"unavailable",
                       IF shown[g] \in redeemed THEN "duplicate"
                       ELSE IF shown[g] \in WidgetToken THEN "ours" ELSE "foreign"} :
               verdict' = [verdict EXCEPT ![g] = v]
       \/ verdict' = [verdict EXCEPT ![g] = "unavailable"] /\ UNCHANGED redeemed
    /\ At(g, "verified")
    /\ UNCHANGED <<open, shown, slots, grants>>

\* Mutant: an answer that did not arrive counts as one that did.
ValidatesOrLost(v) == v \in {"ours", "unavailable"}

\* Validate: success, for this host and action.
Validates(v) == v = "ours"

\* The place is given back before the result is looked at.
Judge(g) ==
    /\ guestPc[g] = "verified"
    /\ slots' = slots - 1
    /\ At(g, IF Validates(verdict[g]) THEN "grant" ELSE "refused")
    /\ UNCHANGED <<open, shown, verdict, redeemed, grants>>

\* CreateAttributedSession looks at the event again, in its transaction.
CreateUploadSession(g) ==
    /\ guestPc[g] = "grant"
    /\ \/ open /\ grants' = grants \cup {[guest |-> g, token |-> shown[g]]} /\ At(g, "granted")
       \/ ~open /\ At(g, "refused") /\ UNCHANGED grants
    /\ UNCHANGED <<open, shown, verdict, slots, redeemed>>

GuestStep(g) == TakeSlot(g) \/ Redeem(g) \/ Judge(g) \/ CreateUploadSession(g)
ChallengeNext ==
    \/ Closes
    \/ \E g \in Guest : GuestStep(g) \/ \E t \in WidgetToken \cup ForeignToken : CheckOpen(g, t)

ChallengeSpec == ChallengeInit /\ [][ChallengeNext]_challengeVars

-----------------------------------------------------------------------------
\* "One redemption only": a token that was solved once admits one guest, even
\* when two requests carry it at the same time and an answer is lost, and a
\* token of another site or action admits nobody.
OneGrantPerToken ==
    /\ \A x, y \in grants : x.token = y.token => x = y
    /\ \A x \in grants : x.token \in WidgetToken

=============================================================================
