------------------------------ MODULE Clients ------------------------------
(***************************************************************************)
(* How a client comes to be, and who invited him.  The bot's /start, every *)
(* request of the Mini App and a payment of somebody unknown register the  *)
(* person (flows/clients.py); the one that creates the row, and only it,   *)
(* attaches the inviter its link names (flows/referrals.attach).           *)
(*                                                                         *)
(* Several requests of one person run at once, each in a transaction of    *)
(* its own.  A client is known by clients.id and by telegram_id; his code  *)
(* stands for the id it belongs to, and a link can only carry the code of  *)
(* a client that was committed when the link was made.  Names and          *)
(* languages are left out: `refresh' is that Telegram tells new ones.      *)
(*                                                                         *)
(* An operator X_Y is X with the slip Y, as in SubscriptionState.          *)
(***************************************************************************)
EXTENDS Integers

CONSTANTS People,       \* telegram_id
          Requests,     \* requests under way at a time
          MaxRequests   \* bound of the model: requests that are made

ClientsAssumption == MaxRequests \in Nat

VARIABLES rows,     \* clients, as committed: id, telegram_id, referred_by
          nextId,   \* the identity sequence: rolled back values are not used again
          work,     \* each request: whose, through which door, the code it carries, its row
          asked     \* counter for the bound

clientsVars == <<rows, nextId, work, asked>>

NoClient == 0   \* NULL
Doors == {"bot", "app", "payment"}
Idle == [at |-> "idle"]
Goto(k, step) == work' = [work EXCEPT ![k] = step]
RowsOf(p) == {r \in rows : r.who = p}

----------------------------------------------------------------------------
\* A request of p arrives; a payment carries no link.
Ask(k, p, door, code) ==
    /\ work[k] = Idle
    /\ asked < MaxRequests /\ asked' = asked + 1
    /\ code = NoClient \/ (door # "payment" /\ \E r \in rows : r.id = code)
    /\ Goto(k, [at |-> IF door = "bot" THEN "upsert" ELSE "find",
                who |-> p, door |-> door, code |-> code])
    /\ UNCHANGED <<rows, nextId>>

\* find_client_by_telegram_id: a known client is registered again only by the Mini App and
\* when his name or language is a new one.
Find(k, refresh) ==
    /\ work[k].at = "find"
    /\ refresh => work[k].door = "app"
    /\ Goto(k, IF RowsOf(work[k].who) # {} /\ ~refresh THEN Idle
               ELSE [work[k] EXCEPT !.at = "upsert"])
    /\ UNCHANGED <<rows, nextId, asked>>

\* The row is locked by its unique telegram_id, stored or not, until the transaction ends.
Holds(k) == work[k].at \in {"attach", "commit"}
Unlocked(p) == \A k \in Requests : Holds(k) => work[k].row.who # p

Hold(k, at, row) ==
    Goto(k, [at |-> at, who |-> work[k].who, door |-> work[k].door,
             code |-> work[k].code, row |-> row])
New(k) == [id |-> nextId, who |-> work[k].who, ref |-> NoClient]

\* The request that has created the row goes on to attach, in the bot and in the Mini App.
Create(k) ==
    /\ RowsOf(work[k].who) = {}
    /\ Hold(k, IF work[k].door = "payment" THEN "commit" ELSE "attach", New(k))

Upsert_Unlocked(k) ==
    /\ work[k].at = "upsert"
    /\ nextId' = nextId + 1
    /\ \/ Create(k)
       \/ \E r \in RowsOf(work[k].who) : Hold(k, "commit", r)
    /\ UNCHANGED <<rows, asked>>
Upsert_AlwaysAttaches(k) ==
    /\ work[k].at = "upsert" /\ Unlocked(work[k].who)
    /\ nextId' = nextId + 1
    /\ \/ Create(k)
       \/ \E r \in RowsOf(work[k].who) : Hold(k, "attach", r)
    /\ UNCHANGED <<rows, asked>>
Upsert_Resets(k) ==
    /\ work[k].at = "upsert" /\ Unlocked(work[k].who)
    /\ nextId' = nextId + 1
    /\ \/ Create(k)
       \/ \E r \in RowsOf(work[k].who) : Hold(k, "commit", [r EXCEPT !.ref = NoClient])
    /\ UNCHANGED <<rows, asked>>
\* INSERT ... ON CONFLICT DO UPDATE; xmax = 0 tells the request that has created the row.  A
\* conflict has taken a number as well.
Upsert(k) ==
    /\ work[k].at = "upsert" /\ Unlocked(work[k].who)
    /\ nextId' = nextId + 1
    /\ \/ Create(k)
       \/ \E r \in RowsOf(work[k].who) : Hold(k, "commit", r)
    /\ UNCHANGED <<rows, asked>>

\* set_referrer: an attached client, an unknown code and one's own are ignored.
Attach(k) ==
    /\ work[k].at = "attach"
    /\ LET row == work[k].row
           found == row.ref = NoClient /\ work[k].code # row.id /\ \E r \in rows : r.id = work[k].code
       IN Hold(k, "commit", IF found THEN [row EXCEPT !.ref = work[k].code] ELSE row)
    /\ UNCHANGED <<rows, nextId, asked>>

Commit(k) ==
    /\ work[k].at = "commit"
    /\ rows' = {r \in rows : r.id # work[k].row.id} \cup {work[k].row}
    /\ Goto(k, Idle)
    /\ UNCHANGED <<nextId, asked>>

\* The request is cancelled, or what follows fails: rolled back.
Lose(k) ==
    /\ work[k] # Idle
    /\ Goto(k, Idle)
    /\ UNCHANGED <<rows, nextId, asked>>

ClientsInit ==
    /\ rows = {} /\ nextId = 1 /\ asked = 0
    /\ work = [k \in Requests |-> Idle]

Codes == {NoClient} \cup {r.id : r \in rows}

ClientsNext == \E k \in Requests :
    \/ \E p \in People, door \in Doors, code \in Codes : Ask(k, p, door, code)
    \/ \E refresh \in BOOLEAN : Find(k, refresh)
    \/ Upsert(k) \/ Attach(k) \/ Commit(k) \/ Lose(k)

ClientsSpec == ClientsInit /\ [][ClientsNext]_clientsVars

----------------------------------------------------------------------------
\* First requests of one person that meet make one client (the docstring of upsert_client).
OneRowEach == \A r, s \in rows : r.who = s.who \/ r.id = s.id => r = s

\* Who invited is an older client, so that the referrals make no ring: what
\* reward_first_payment's comment builds the order of its row locks on.
ReferrersAreOlder == \A r \in rows : r.ref # NoClient => r.ref < r.id /\ \E s \in rows : s.id = r.ref

\* A client keeps his row, and once he is there nothing changes who invited him.
ReferrerIsKept == [][rows \subseteq rows']_clientsVars

\* Together: those who invited and those they invited are a forest, and it only grows.
ReferralForest == [](OneRowEach /\ ReferrersAreOlder) /\ ReferrerIsKept
============================================================================
