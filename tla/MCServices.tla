---------------------------- MODULE MCServices ----------------------------
\* Instances of Services for TLC.
EXTENDS Services, TLC

CONSTANTS r1, r2, r3, repoA, repoB, rev, rep, here, there

\* Two reviews share a repository, the third has one of its own.
MCRepoOf == (r1 :> repoA) @@ (r2 :> repoA) @@ (r3 :> repoB)

\* Lines of a review, with one of nobody and one of a report between them.
MCTaskOf == <<rev, NoTask, rep, rev, rev>>

\* What the three agents print: noise on the other pipe, results with and
\* without a text, a line too long.
Line(p, t, x) == [pipe |-> p, type |-> t, delta |-> t = "message", text |-> x]
Out(t, x) == Line("stdout", t, x)
Noise == Line("stderr", "noise", <<>>)
Play(who, lines) == [agent |-> who, lines |-> lines]
MCScripts ==
    { Play("cursor", <<Out("system", <<>>), Out("assistant", <<here>>), Noise, Out("assistant", <<there>>), Out("result", <<there, here>>)>>),
      Play("cursor", <<Out("assistant", <<here>>), Out("result", <<>>), Out("long", <<there>>), Out("assistant", <<there>>), Out("assistant", <<there>>)>>),
      Play("gemini", <<Out("init", <<>>), Out("message", <<here>>), Noise, [Out("message", <<there>>) EXCEPT !.delta = FALSE],
                       Out("message", <<there>>), Out("result", <<>>)>>),
      Play("qoder", <<Out("assistant", <<here>>), Noise, Out("result", <<there>>), Out("unknown", <<here>>), Out("error", <<there>>)>>),
      Play("qoder", <<Out("assistant", <<here>>), Out("result", <<>>)>>) }

\* Configurations of every channel, with two addresses; one of a channel that
\* nobody knows and one without.  Notices of failures, tests and successes.
To(c, e, d) == [channel |-> c, events |-> e,
                at |-> [k \in {"webhook", "slack", "feishu", "email"} |->
                          IF k = c \/ (k = "slack" /\ c \in {"other", "none"}) THEN d ELSE Nowhere]]
MCConfigs ==
    { To("webhook", {"failed", "completed"}, here), To("webhook", {"failed"}, there), To("feishu", {"failed"}, here),
      To("email", {"failed"}, here), To("slack", {"failed"}, there), To("other", {"failed"}, there), To("none", {"failed"}, there) }
MCEvents ==
    { [type |-> "failed", test |-> FALSE], [type |-> "failed", test |-> TRUE], [type |-> "completed", test |-> FALSE] }

=============================================================================
