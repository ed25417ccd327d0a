--------------------------- MODULE MCPullService ---------------------------
(* Finite instances of PullService for TLC; each .cfg picks from these. *)
EXTENDS PullService, TLC

CONSTANTS h1, r1, r2, g1, g2

\* The activity is on offer in r1 and has ended in r2.
OneGroup == [q \in Releases \X Hashes |-> IF q[1] = r1 THEN g1 ELSE None]

\* Release r2 moves the banner of one request to another pity group and takes
\* that of the other off.
TwoGroups == [q \in Releases \X Hashes |->
                IF q[1] = r1 THEN g1 ELSE IF q[2] = h1 THEN g2 ELSE None]

\* The banner of any other request than the first has nothing to lose the coin to.
Unstocked == {c \in Contexts : c.release = r1 /\ c.request # h1}

Table(r) == {[k \in Keys |-> r]}

NewTable == Table(Store!Absent)

\* Rows left by older engines.
Legacy == [Store!Absent EXCEPT !.hash = h1]

FirstContext == Context(r1, h1)

\* Imported by migrate_redis_state.py, which knows no recovery context.
LegacyProcessing == Table([Legacy EXCEPT !.status = "processing"])

\* Left by an engine that still gave up on charged operations.
LegacyRefund == Table([Legacy EXCEPT !.status = "refund_pending", !.ctx = FirstContext])

NewOrRefund == NewTable \cup LegacyRefund

\* A draw whose response has none of the keys added since.
LegacyDraw ==
  Table([Legacy EXCEPT !.status = "event_pending",
                       !.resp = [ctx |-> FirstContext, prev |-> NoPity, legacy |-> TRUE]])

AnyTable == NewOrRefund \cup LegacyProcessing \cup LegacyDraw

\* Handlers are alike, and so are the keys of new operations.
HandlersAlike == Permutations(Clients)
KeysAlike == Permutations(Keys)

\* Fault sets.  Definite: the asset service answers 4xx only for the balance and
\* executes no request after its caller's timeout.  Punctual: besides, leases
\* and locks outlive the work done under them.
Definite == FaultKinds \ {"late", "refuse"}
Punctual == Definite \ {"overrun"}
Refusing == {"asset", "refuse"}
=============================================================================
