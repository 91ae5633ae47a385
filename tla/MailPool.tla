------------------------------ MODULE MailPool ------------------------------
(***************************************************************************)
(* The e-mail service: the table of its providers, the pool of senders     *)
(* built from it, the requests that change the table and reload the pool,  *)
(* and the requests that send.                                             *)
(*                                                                         *)
(* A provider's row is a version number, 0 when it is absent, inactive or  *)
(* unhealthy; what is in a row, the order of fallback and the log of what  *)
(* was sent are left out.  Whether a sender delivers is up to its server.  *)
(* The lock is that of EmailService: MultiProvider's own protects single   *)
(* calls only.                                                             *)
(***************************************************************************)
EXTENDS Naturals, FiniteSets

CONSTANTS
    Providers,
    Changers,     \* requests that change a provider, each used once
    Senders,      \* requests that send an e-mail, each used once
    MaxVersion    \* bounds the changes of the table

ASSUME VersionsArePositive == MaxVersion \in Nat \ {0}

VARIABLES
    table,      \* email_providers: per provider its version, or 0
    versions,   \* how many versions there have been
    changer,    \* a request that changes a provider: its stage, the list it read
    pool,       \* multi.senders: per provider the version in use, or 0
    reads,      \* history: how often the list was read
    poolRead,   \* history: which of them the pool was built from
    unread,     \* history: a change since the last read that no reload follows
    mail        \* a request that sends: its stage, its copy of the senders

mailVars == <<table, versions, changer, pool, reads, poolRead, unread, mail>>

Nobody == [p \in Providers |-> 0]
Lists == [Providers -> 0..MaxVersion]

NewChanger == [stage |-> "new", list |-> Nobody, read |-> 0, added |-> {}]

\* NewEmailService has loaded the pool, or warned that it could not.
MailInit ==
    /\ table \in [Providers -> 0..1] /\ versions = 1
    /\ \/ pool = table /\ unread = FALSE
       \/ pool = Nobody /\ unread = TRUE
    /\ changer = [r \in Changers |-> NewChanger]
    /\ reads = 0 /\ poolRead = 0
    /\ mail = [s \in Senders |-> [stage |-> "new", copy |-> Nobody]]

Rewrites(p) ==
    /\ versions < MaxVersion
    /\ versions' = versions + 1
    /\ \E v \in {0, versions + 1} : table' = [table EXCEPT ![p] = v]

(***************************************************************************)
(* CreateProvider, UpdateProvider and DeleteProvider, once their statement *)
(* has succeeded.                                                          *)
(***************************************************************************)
\* Mutant: a deleted provider is only taken out of the table.
ChangeWithoutReload(r, p) ==
    /\ changer[r].stage = "new"
    /\ Rewrites(p)
    /\ changer' = [changer EXCEPT ![r].stage = IF table'[p] = 0 THEN "done" ELSE "changed"]
    /\ UNCHANGED <<pool, reads, poolRead, unread, mail>>

ChangeProvider(r, p) ==
    /\ changer[r].stage = "new"
    /\ Rewrites(p)
    /\ changer' = [changer EXCEPT ![r].stage = "changed"]
    /\ UNCHANGED <<pool, reads, poolRead, unread, mail>>

\* TestProvider writes the health it found, and reloads nothing; neither does a change
\* whose answer is lost.
TestProvider(p) ==
    /\ Rewrites(p)
    /\ unread' = TRUE
    /\ UNCHANGED <<changer, pool, reads, poolRead, mail>>

(***************************************************************************)
(* loadProviders: the list is read first, the lock is taken after.         *)
(***************************************************************************)
ListActiveProviders(r) ==
    /\ changer[r].stage = "changed"
    /\ changer' = [changer EXCEPT ![r] =
                      [stage |-> "listed", list |-> table, read |-> reads + 1, added |-> {}]]
    /\ reads' = reads + 1
    /\ unread' = FALSE
    /\ UNCHANGED <<table, versions, pool, poolRead, mail>>

\* The error is only logged.
ListFails(r) ==
    /\ changer[r].stage = "changed"
    /\ changer' = [changer EXCEPT ![r].stage = "done"]
    /\ unread' = TRUE
    /\ UNCHANGED <<table, versions, pool, reads, poolRead, mail>>

\* sync.RWMutex: a writer that waits keeps new readers out.
AskLock(r) ==
    /\ changer[r].stage = "listed"
    /\ changer' = [changer EXCEPT ![r].stage = "waiting"]
    /\ UNCHANGED <<table, versions, pool, reads, poolRead, unread, mail>>

WriterAtWork == \E r \in Changers : changer[r].stage = "adding"
WriterWaits  == \E r \in Changers : changer[r].stage = "waiting"
ReaderAtWork == \E s \in Senders : mail[s].stage \in {"locked", "sending"}

\* With the lock held, every sender is removed ...
RemoveSenders(r) ==
    /\ changer[r].stage = "waiting"
    /\ ~WriterAtWork /\ ~ReaderAtWork
    /\ pool' = Nobody
    /\ poolRead' = changer[r].read
    /\ changer' = [changer EXCEPT ![r].stage = "adding"]
    /\ UNCHANGED <<table, versions, reads, unread, mail>>

\* ... and those of the list are added, one by one.
AddSender(r, p) ==
    /\ changer[r].stage = "adding"
    /\ changer[r].list[p] # 0 /\ p \notin changer[r].added
    /\ pool' = [pool EXCEPT ![p] = changer[r].list[p]]
    /\ changer' = [changer EXCEPT ![r].added = @ \cup {p}]
    /\ UNCHANGED <<table, versions, reads, poolRead, unread, mail>>

Unlock(r) ==
    /\ changer[r].stage = "adding"
    /\ \A p \in Providers : changer[r].list[p] # 0 => p \in changer[r].added
    /\ changer' = [changer EXCEPT ![r].stage = "done"]
    /\ UNCHANGED <<table, versions, pool, reads, poolRead, unread, mail>>

(***************************************************************************)
(* SendEmail and SendTemplate: the lock is held while the senders, copied, *)
(* are tried one after the other.                                          *)
(***************************************************************************)
\* Mutant: the lock is not asked for.
SendUnlocked(s) ==
    /\ mail[s].stage = "new"
    /\ mail' = [mail EXCEPT ![s].stage = "locked"]
    /\ UNCHANGED <<table, versions, changer, pool, reads, poolRead, unread>>

SendEmail(s) ==
    /\ mail[s].stage = "new"
    /\ ~WriterAtWork /\ ~WriterWaits
    /\ mail' = [mail EXCEPT ![s].stage = "locked"]
    /\ UNCHANGED <<table, versions, changer, pool, reads, poolRead, unread>>

SendPrimary(s) ==
    /\ mail[s].stage = "locked"
    /\ mail' = [mail EXCEPT ![s].stage = "sending", ![s].copy = pool]
    /\ UNCHANGED <<table, versions, changer, pool, reads, poolRead, unread>>

\* One sender delivered, or none did: without senders none does.
SendEnds(s) ==
    /\ mail[s].stage = "sending"
    /\ \/ mail[s].copy # Nobody /\ mail' = [mail EXCEPT ![s].stage = "sent"]
       \/ mail' = [mail EXCEPT ![s].stage = "failed"]
    /\ UNCHANGED <<table, versions, changer, pool, reads, poolRead, unread>>

-----------------------------------------------------------------------------
MailNext ==
    \/ \E r \in Changers :
         \/ \E p \in Providers : ChangeProvider(r, p) \/ AddSender(r, p)
         \/ ListActiveProviders(r) \/ ListFails(r)
         \/ AskLock(r) \/ RemoveSenders(r) \/ Unlock(r)
    \/ \E p \in Providers : TestProvider(p)
    \/ \E s \in Senders : SendEmail(s) \/ SendPrimary(s) \/ SendEnds(s)

MailSpec == MailInit /\ [][MailNext]_mailVars

-----------------------------------------------------------------------------
MailTypeOK ==
    /\ table \in Lists /\ pool \in Lists /\ versions \in 0..MaxVersion
    /\ changer \in [Changers -> [stage : {"new", "changed", "listed", "waiting", "adding", "done"},
                                 list : Lists, read : Nat, added : SUBSET Providers]]
    /\ reads \in Nat /\ poolRead \in Nat /\ unread \in BOOLEAN
    /\ mail \in [Senders -> [stage : {"new", "locked", "sending", "sent", "failed"}, copy : Lists]]

\* What an e-mail is sent with is no half-built pool: while it is under way the senders
\* are those it copied.  And when no change is under way the pool is the table, unless a
\* change was not followed by a reload (the reload failed, or a test wrote the health),
\* or the list read last was installed before an older one, which then stays.
SendsWithWholePool ==
    \A s \in Senders :
        /\ mail[s].stage \in {"locked", "sending"} => ~WriterAtWork
        /\ mail[s].stage = "sending" => mail[s].copy = pool
PoolSettles ==
    (\A r \in Changers : changer[r].stage \in {"new", "done"}) =>
        unread \/ poolRead # reads \/ pool = table
PoolWhole == SendsWithWholePool /\ PoolSettles
=============================================================================
