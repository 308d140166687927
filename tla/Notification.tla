--------------------------- MODULE Notification ---------------------------
(***************************************************************************)
(* Notices about tasks that ended (internal/notification).  The worker of  *)
(* a task, or the handler of a test, reads the configuration from the      *)
(* database, makes a notifier for its channel unless the one at hand is    *)
(* for that channel already, and sends the notice with it.  Workers do so  *)
(* at the same time, and administrators change the configuration between   *)
(* any two steps.                                                          *)
(***************************************************************************)
EXTENDS Naturals, FiniteSets

CONSTANTS
    Senders,        \* workers and requests
    Events,         \* events: type, test
    Configs,        \* configurations: channel, events, at (an address per channel)
    MaxCalls,       \* bound: notices
    MaxChanges,     \* bound: changes of the configuration
    MaxFaults,      \* bound: reads of the configuration that fail
    Nowhere,        \* the empty address
    None            \* no configuration, no notifier

HTTPChannels == {"webhook", "slack", "feishu"}
Channels == HTTPChannels \cup {"email"}

VARIABLES
    setting,    \* the configuration in the database, or None
    cachedConfig, notifier,
    call,       \* per sender: the notice it is about
    sent,       \* history: notices that were sent: how, where, what was answered
    calls, changes, mishaps

vars == <<setting, cachedConfig, notifier, call, sent, calls, changes, mishaps>>

Idle == [pc |-> "idle"]
IsEnabled(cfg) == cfg # None /\ cfg.channel # "none"

TypeOK ==
    /\ setting \in Configs \cup {None} /\ cachedConfig \in Configs \cup {None}
    /\ notifier = None \/ notifier.channel \in Channels
    /\ \A s \in Senders : call[s].pc \in {"idle", "test", "read", "prepare", "send", "answer"}
    /\ calls \in 0..MaxCalls /\ changes \in 0..MaxChanges /\ mishaps \in 0..MaxFaults

\* initNotifierFromConfig: an unknown channel leaves the notifier as it is.
NotifierFor(cfg, old) ==
    IF cfg.channel \in Channels THEN [channel |-> cfg.channel, to |-> cfg.at[cfg.channel]] ELSE old

\* NewManager with refreshNotifier.
Init ==
    /\ setting \in Configs \cup {None}
    /\ \/ /\ cachedConfig = setting
          /\ notifier = IF IsEnabled(setting) THEN NotifierFor(setting, None) ELSE None
          /\ mishaps = 0
       \/ MaxFaults > 0 /\ cachedConfig = None /\ notifier = None /\ mishaps = 1
    /\ call = [s \in Senders |-> Idle]
    /\ sent = {}
    /\ calls = 0 /\ changes = 0

Go(s, c) == call' = [call EXCEPT ![s] = c]

\* An administrator stores another configuration.
Change ==
    /\ changes < MaxChanges /\ changes' = changes + 1
    /\ setting' \in Configs \ {setting}
    /\ UNCHANGED <<cachedConfig, notifier, call, sent, calls, mishaps>>

\* handleError and the end of processTask of either engine; a test looks
\* first whether notices are enabled.
Begin(s, e) ==
    /\ call[s] = Idle
    /\ calls < MaxCalls /\ calls' = calls + 1
    /\ Go(s, [pc |-> IF e.test THEN "test" ELSE "read", event |-> e, id |-> calls])
    /\ UNCHANGED <<setting, cachedConfig, notifier, sent, changes, mishaps>>

Fault == mishaps < MaxFaults /\ mishaps' = mishaps + 1

TestNotification(s) ==
    /\ call[s].pc = "test"
    /\ \/ IsEnabled(setting) /\ Go(s, [call[s] EXCEPT !.pc = "read"]) /\ UNCHANGED mishaps
       \/ ~IsEnabled(setting) /\ Go(s, Idle) /\ UNCHANGED mishaps
       \/ Fault /\ Go(s, Idle)
    /\ UNCHANGED <<setting, cachedConfig, notifier, sent, calls, changes>>

\* Notify reads the configuration, before it takes the lock.
ReadConfig(s) ==
    /\ call[s].pc = "read"
    /\ \/ /\ IsEnabled(setting) /\ call[s].event.type \in setting.events
          /\ Go(s, [pc |-> "prepare", cfg |-> setting, event |-> call[s].event, id |-> call[s].id])
          /\ UNCHANGED mishaps
       \/ /\ ~(IsEnabled(setting) /\ call[s].event.type \in setting.events)
          /\ Go(s, Idle) /\ UNCHANGED mishaps
       \/ Fault /\ Go(s, Idle)
    /\ UNCHANGED <<setting, cachedConfig, notifier, sent, calls, changes>>

\* Mutant: the notifier is made once.
KeepNotifier(cfg) == cachedConfig # None

\* Is the notifier at hand good for this configuration?
Reusable(cfg) == cachedConfig # None /\ cachedConfig.channel = cfg.channel

\* Under the lock.
Prepare(s) ==
    LET cfg == call[s].cfg
        new == IF Reusable(cfg) THEN notifier ELSE NotifierFor(cfg, notifier)
    IN
    /\ call[s].pc = "prepare"
    /\ cachedConfig' = IF Reusable(cfg) THEN cachedConfig ELSE cfg
    /\ notifier' = new
    /\ Go(s, IF new = None THEN Idle
             ELSE [pc |-> "send", cfg |-> cfg, with |-> new, event |-> call[s].event, id |-> call[s].id])
    /\ UNCHANGED <<setting, sent, calls, changes, mishaps>>

-----------------------------------------------------------------------------
\* external: what a service answers to a request: its status and a body that
\* is "ok", some text, or JSON with the code zero, another or none.
Responses == [status : {200, 204, 500}, body : {"ok", "text", "code zero", "code", "no code"}]
Taken(c, r) == IF c = "feishu" /\ r.body \in {"code zero", "code"} THEN r.body = "code zero" ELSE r.status # 500
Codeless(c, r) == c = "feishu" /\ r.status = 500 /\ r.body = "no code"

\* When each Send takes the answer for a success.
WebhookAccepts(r) == r.status \in 200..299
SlackAccepts(r) == r.status = 200 /\ r.body = "ok"
FeishuAccepts(r) ==
    \/ r.body \in {"code zero", "no code"}
    \/ r.body \in {"ok", "text"} /\ r.status = 200
Accepts(c, r) ==
    \/ c = "webhook" /\ WebhookAccepts(r)
    \/ c = "slack" /\ SlackAccepts(r)
    \/ c = "feishu" /\ FeishuAccepts(r)

Report(s, r, accepted) ==
    /\ Go(s, Idle)
    /\ sent' = sent \cup {[id |-> call[s].id, via |-> call[s].with, read |-> call[s].cfg, accepted |-> accepted,
                          taken |-> Taken(call[s].with.channel, r),
                          codeless |-> Codeless(call[s].with.channel, r)]}

\* Without an address nothing is sent.
Send(s) ==
    /\ call[s].pc = "send"
    /\ \/ call[s].with.to = Nowhere /\ Go(s, Idle)
       \/ call[s].with.to # Nowhere /\ Go(s, [call[s] EXCEPT !.pc = "answer"])
    /\ UNCHANGED <<setting, cachedConfig, notifier, sent, calls, changes, mishaps>>

HTTPAnswer(s) ==
    /\ call[s].pc = "answer" /\ call[s].with.channel \in HTTPChannels
    /\ \E r \in Responses : Report(s, r, Accepts(call[s].with.channel, r))
    /\ UNCHANGED <<setting, cachedConfig, notifier, calls, changes, mishaps>>

\* Mutant: the HTTP clients have no timeout.
NoTimeout(s) == FALSE

\* The timeout of the HTTP clients, or a cancelled context.
Timeout(s) ==
    /\ call[s].pc = "answer" /\ call[s].with.channel \in HTTPChannels
    /\ Go(s, Idle)
    /\ UNCHANGED <<setting, cachedConfig, notifier, sent, calls, changes, mishaps>>

\* A mail is sent without a timeout and without the context: the server ends
\* the dialogue, well or badly, or never.
MailAnswer(s) ==
    /\ call[s].pc = "answer" /\ call[s].with.channel = "email"
    /\ \/ Report(s, [status |-> 200, body |-> "ok"], TRUE)
       \/ Report(s, [status |-> 500, body |-> "text"], FALSE)
    /\ UNCHANGED <<setting, cachedConfig, notifier, calls, changes, mishaps>>

Notify(s) == TestNotification(s) \/ ReadConfig(s) \/ Prepare(s) \/ Send(s) \/ Timeout(s)

Next ==
    \/ Change
    \/ \E s \in Senders :
          Notify(s) \/ HTTPAnswer(s) \/ MailAnswer(s) \/ \E e \in Events : Begin(s, e)

Spec == Init /\ [][Next]_vars /\ \A s \in Senders : WF_vars(Notify(s))

-----------------------------------------------------------------------------
\* A notice goes out over the channel of the configuration that its own call
\* has read, whichever channels calls at the same time have read.  Not so for
\* a channel that is not known, which gets the notifier of the last one.
OwnChannel == \A n \in sent : n.read.channel \in Channels => n.via.channel = n.read.channel

\* notifier.go:160, "Fetch the latest configuration from database (real-time
\* access)": a notice goes to the address in the configuration it has read.
LatestAddress == \A n \in sent : n.read.channel \in Channels => n.via.to = n.read.at[n.via.channel]

\* A notice that the sender believes delivered was taken by the service.  Not
\* so for Feishu when an error has a JSON body without a code.
AcceptedIsTaken ==
    \A n \in sent : (n.accepted /\ ~n.codeless) => n.taken

\* A service that does not answer holds a worker for a while only, unless it
\* is a mail server.
NoticesEnd ==
    \A s \in Senders :
        call[s].pc # "idle" ~>
            (call[s].pc = "idle" \/ (call[s].pc = "answer" /\ call[s].with.channel = "email"))
=============================================================================
