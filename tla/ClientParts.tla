---------------------------- MODULE ClientParts ----------------------------
(***************************************************************************)
(* The components that deal with clients side by side: who they are, whom  *)
(* they bring, what they are told, their devices and codes.  They share no *)
(* state.                                                                  *)
(***************************************************************************)
EXTENDS Parts, Referrals, Clients

CONSTANTS MaxMessages, Senders, MaxAttempts, MaxBackoff, BatchSize, Gone, Broken, Flooded,
          MaxLosses,                                                       \* Notifications
          MaxTerms, MaxPeriods, MaxPending,                                \* Announcements
          Thresholds, ReminderWindow, Day, Terms, ReminderNow, TermChanges,  \* Reminders
          DeviceRequests, Limits, MaxSeq, DeviceChanges,                   \* Devices
          CodeClients, CodeRequests, MaxUses, CodeChanges                  \* PromoCodes

VARIABLES m_rows, line, job, m_copies, losses,
          a_sub, blocked, a_events, a_told, past,
          q_now, q_sub, since, queued, lastRun, late, q_changes,
          devices, revocations, limit, most, d_request, d_locker, links, answered, d_loaded,
          d_changes,
          code, redeemed, gifts, refusing, p_request, p_locker, p_changes

M == INSTANCE Notifications WITH
       rows <- m_rows, copies <- m_copies
A == INSTANCE Announcements WITH
       sub <- a_sub, events <- a_events, told <- a_told
Q == INSTANCE Reminders WITH
       Window <- ReminderWindow, MaxNow <- ReminderNow, MaxChanges <- TermChanges,
       now <- q_now, sub <- q_sub, changes <- q_changes
D == INSTANCE Devices WITH
       Requests <- DeviceRequests, MaxChanges <- DeviceChanges, request <- d_request,
       locker <- d_locker, loaded <- d_loaded, changes <- d_changes
P == INSTANCE PromoCodes WITH
       Clients <- CodeClients, Requests <- CodeRequests, MaxChanges <- CodeChanges,
       request <- p_request, locker <- p_locker, changes <- p_changes

mVars == <<m_rows, line, job, m_copies, losses>>
aVars == <<a_sub, blocked, a_events, a_told, past>>
qVars == <<q_now, q_sub, since, queued, lastRun, late, q_changes>>
dVars == <<devices, revocations, limit, most, d_request, d_locker, links, answered,
            d_loaded, d_changes>>
pVars == <<code, redeemed, gifts, refusing, p_request, p_locker, p_changes>>
rVars == <<payments, task, inviter, locker, journal, recent, given, renewals, applying,
            turns, failures, everBlocked>>
eVars == <<rows, nextId, work, asked>>

----------------------------------------------------------------------------
\* Notifications: a chat gets a message again only after a lost answer, and a message is
\* given up only after all its attempts.
MessagesGoOnce == part = "outbox" => M!RepeatsAreLosses /\ M!FailedAfterPatience

\* Announcements, Reminders: nobody is told what was not so, and no end is passed over while
\* the runs are on time.
ClientsAreToldRight ==
    /\ part = "words" => A!AlarmsAreTrue
    /\ part = "reminders" => Q!NobodyIsPassedOver

\* Devices: requests that meet at the last free place do not both get it, a .p12 leaves the
\* server once and only for a device that exists, the list of revocations names every
\* revoked device once, and a number is given to one device for ever.
DevicesAddUp == D!DevicesAddUp

\* PromoCodes: a code was used up on exactly those clients that got what it gives, its
\* counter counts them, and no redemption takes it past the maximum of its time.
CodesAddUp == P!CodesAddUp
============================================================================
