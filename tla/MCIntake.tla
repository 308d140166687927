---------------------------- MODULE MCIntake ----------------------------
\* Instances of Intake for TLC.
EXTENDS Intake, TLC

CONSTANTS
    repoA, repoB, c1, c2, hub, lab, cursor, k1, k2, k3, github, gitlab, x, y,
    hubcom, labcom, teacom, ghe, corp, corpeu, own, sub, prj, ghio, ghub, tree

\* Deliveries of the three services: two commits of one pull request, one
\* without an address, kinds and actions that are not reviewed, a body
\* without its header, one that is not genuine, and a request of the API.
Hook(p, r, h, a, n, c) ==
    [source |-> "webhook", provider |-> p, repo |-> r, header |-> h, object |-> None, genuine |-> TRUE,
     action |-> a, pr |-> n, commit |-> c]
MCEvents ==
    { Hook("github", repoA, "pull_request", "opened", 1, c1),
      Hook("github", repoA, "pull_request", "synchronize", 1, c2),
      Hook("github", repoA, "pull_request", "labeled", 1, c1),
      Hook("github", repoA, "push", "none", 0, c1),
      Hook("gitlab", repoB, "Merge Request Hook", "update", 1, c1),
      [Hook("gitlab", repoB, None, "merge", 1, c1) EXCEPT !.object = "merge_request"],
      Hook("gitlab", repoB, "Tag Push Hook", "none", 0, None),
      Hook("gitea", repoB, "pull_request", "opened", 2, c1),
      Hook("gitea", repoB, "pull_request", "closed", 1, c1),
      [Hook("github", repoA, "pull_request", "closed", 1, c1) EXCEPT !.genuine = FALSE],
      [Hook("gitlab", repoB, None, "none", 0, None) EXCEPT !.source = "api"] }

\* An array of two providers and two agents, one of which was deleted.
Item(n, s) == [name |-> n, secret |-> s]
Row(state, v) == [state |-> state, value |-> v]
MCTypeOf == (hub :> github) @@ (lab :> gitlab) @@ (cursor :> cursor) @@ (Malformed :> cursor)
MCCategoryOf == ("providers" :> "git") @@ ("cursor" :> "agents") @@ ("gemini" :> "agents")
MCInitial ==
    { ("providers" :> Row("live", <<Item(hub, k1), Item(lab, k2)>>))
      @@ ("cursor" :> Row("live", <<Item(IF bad THEN Malformed ELSE cursor, k3)>>))
      @@ ("gemini" :> Row("deleted", <<Item(cursor, k3)>>)) : bad \in BOOLEAN }

\* Databases of older versions: with columns that are gone now, without those
\* that came later, with rows that violate the unique index, or without a table.
Table(s, l, k, i, r) == [state |-> s, lean |-> l, pk |-> k, index |-> i, rows |-> r]
NoTable == Table("absent", FALSE, FALSE, FALSE, {})
MCLeft ==
    { ("repository_review_configs" :> c) @@ ("reviews" :> v) @@ ("review_rules" :> r) @@ ("review_rule_runs" :> n) :
        c \in {Table("old", FALSE, TRUE, FALSE, {x}), Table("old", FALSE, TRUE, FALSE, {x, y}),
               Table("current", FALSE, TRUE, TRUE, {y})},
        v \in {Table("old", FALSE, TRUE, FALSE, {x}), Table("old", TRUE, TRUE, TRUE, {x}),
               Table("old", FALSE, TRUE, FALSE, {x, y}), Table("current", FALSE, TRUE, TRUE, {y}), NoTable},
        r \in {Table("old", TRUE, TRUE, FALSE, {x}), Table("current", FALSE, TRUE, FALSE, {x})},
        n \in {Table("old", FALSE, TRUE, FALSE, {x}), Table("current", FALSE, TRUE, FALSE, {y}), NoTable} }

\* A public server, an enterprise one whose name contains the public one's,
\* one of a company and one whose name continues it; repositories whose names
\* mention GitHub; several providers of a type.
Provider(t, h, b, k) == [type |-> t, host |-> h, bare |-> b, token |-> k]
URL(s, h, pt, p, g) == [scheme |-> s, host |-> h, port |-> pt, path |-> p, git |-> g]
Ask(u, t) == [url |-> u, type |-> t]
Event(t, p) == [type |-> t, path |-> p]
MCPublic == ("github" :> hubcom) @@ ("gitlab" :> labcom) @@ ("gitea" :> teacom)
MCLike == ("github" :> {hubcom, ghe}) @@ ("gitlab" :> {labcom}) @@ ("gitea" :> {teacom})
MCNaming == ("github" :> {hubcom, ghe, ghio}) @@ ("gitlab" :> {labcom, corp, corpeu}) @@ ("gitea" :> {})
MCEnding == ("github" :> {ghub}) @@ ("gitlab" :> {}) @@ ("gitea" :> {})
MCConfigurations ==
    { <<>>,
      <<Provider("github", None, FALSE, TRUE)>>,
      <<Provider("github", None, FALSE, TRUE), Provider("github", ghe, FALSE, TRUE), Provider("gitlab", corp, FALSE, TRUE)>>,
      <<Provider("gitlab", corp, TRUE, TRUE), Provider("gitlab", None, FALSE, FALSE), Provider("gitea", None, FALSE, TRUE)>> }
MCAsked ==
    { Ask(URL("https", hubcom, FALSE, <<own, prj, tree>>, FALSE), None),
      Ask(URL("none", None, FALSE, <<own, prj>>, FALSE), "gitlab"),
      Ask(URL("none", hubcom, FALSE, <<own, prj>>, TRUE), None),
      Ask(URL("https", corp, FALSE, <<own, sub, prj>>, TRUE), None) }
MCSent == {Event("github", <<own, prj>>), Event("gitlab", <<own, sub, prj>>), Event("gitlab", <<own, ghio>>),
           Event("gitea", <<own, prj>>)}
MCAddresses ==
    { URL("https", hubcom, FALSE, <<own, prj>>, TRUE), URL("ssh", corp, FALSE, <<own, sub, prj>>, TRUE),
      URL("https", corp, TRUE, <<own, prj>>, FALSE), URL("https", corpeu, FALSE, <<own, prj>>, FALSE),
      URL("https", ghe, FALSE, <<own, prj>>, FALSE), URL("https", labcom, FALSE, <<own, ghub>>, TRUE),
      URL("https", teacom, FALSE, <<own, prj, tree>>, FALSE) }

MCDotted == {hubcom, labcom, teacom, ghe, corp, corpeu, ghio}
MCLonger == {<<corp, corpeu>>}

=============================================================================
