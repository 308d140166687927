----------------------------- MODULE Settings -----------------------------
(***************************************************************************)
(* Settings of the server (internal/config/settings.go and merged.go, the  *)
(* handlers of internal/api/handler/settings.go, the provider manager of   *)
(* internal/engine/provider).  A setting has a category, a key and a value *)
(* with secrets in it.  Administrators are shown the settings with masked  *)
(* secrets, edit what they see and send it back, masks included; the       *)
(* masks are replaced by what is stored.  A deleted setting keeps its row. *)
(*                                                                         *)
(* A value is a sequence of items: the providers of an array, the one item *)
(* of an object.  The unmasked fields of an item are its name.             *)
(***************************************************************************)
EXTENDS Naturals, Sequences, FiniteSets, SequencesExt

CONSTANTS
    Admins,
    CategoryOf,     \* a function from the keys to their categories
    Secrets,        \* secrets of more than eight characters
    Short,          \* shorter ones
    Typed,          \* a secret that is typed in
    TypeOf,         \* the type of a provider, by the name of its item
    Initial,        \* the rows the server has been left with
    MaxRequests,    \* bound: views of the settings
    MaxFaults,      \* bound: database statements that fail
    Malformed,      \* the name of an item that an older version wrote badly
    None, Absent

Keys == DOMAIN CategoryOf
Categories == {CategoryOf[k] : k \in Keys}
KeysOf(c) == {k \in Keys : CategoryOf[k] = c}
Names == DOMAIN TypeOf \ {Malformed}

VARIABLES
    rows,       \* per key: "none", "live" or "deleted", and the value
    running,    \* the settings the server started with, or None before that
    admin,      \* per administrator: what he has seen and made of it
    requests, faults

vars == <<rows, running, admin, requests, faults>>

Idle == [step |-> "idle"]
Stored(k) == IF rows[k].state = "live" THEN rows[k].value ELSE Absent
Live == [k \in Keys |-> Stored(k)]

TypeOK ==
    /\ \A k \in Keys : rows[k].state \in {"none", "live", "deleted"}
    /\ \A a \in Admins :
          admin[a].step # "idle" =>
              admin[a].step \in {"view", "edited", "apply"} /\ admin[a].scope \subseteq Categories
    /\ requests \in 0..MaxRequests /\ faults \in 0..MaxFaults

Init ==
    /\ rows \in Initial
    /\ running = None
    /\ admin = [a \in Admins |-> Idle]
    /\ requests = 0 /\ faults = 0

Fault == faults < MaxFaults /\ faults' = faults + 1

-----------------------------------------------------------------------------
\* A mask shows the first and the last characters of a secret, and nothing
\* of a short one.  Masking a mask changes nothing.
Stars == <<>>
maskSensitiveValue(s) == IF s \in Short THEN Stars ELSE IF s \in Secrets THEN <<s>> ELSE s
isMaskedValue(s) == s = Stars \/ s \in {<<x>> : x \in Secrets}

maskSettingsValue(v) == [i \in DOMAIN v |-> [v[i] EXCEPT !.secret = maskSensitiveValue(@)]]

\* Mutant: items are matched from the end of the array.
RestoreFromEnd(v, old) ==
    [i \in DOMAIN v |->
        LET j == i + Len(old) - Len(v) IN
        IF isMaskedValue(v[i].secret) /\ j \in DOMAIN old THEN [v[i] EXCEPT !.secret = old[j].secret] ELSE v[i]]

\* A masked secret is replaced by the stored one of the item at that place.
restoreMaskedValues(v, old) ==
    [i \in DOMAIN v |->
        IF isMaskedValue(v[i].secret) /\ i \in DOMAIN old THEN [v[i] EXCEPT !.secret = old[i].secret] ELSE v[i]]

-----------------------------------------------------------------------------
\* RepairMalformedSettings, when the server starts.
Badly(v) == \E i \in DOMAIN v : v[i].name = Malformed
RepairMalformedSettings ==
    [k \in Keys |-> IF rows[k].state = "live" /\ Badly(rows[k].value)
                    THEN [rows[k] EXCEPT !.state = "deleted"] ELSE rows[k]]

\* loadFromDatabase: what cannot be parsed stays at its default.
loadFromDatabase(db) ==
    [k \in Keys |-> IF db[k].state = "live" /\ ~Badly(db[k].value) THEN db[k].value ELSE Absent]

\* LoadRuntimeConfig goes on without a repair that failed; if the settings
\* cannot be read, everything is at its default.
Start ==
    /\ running = None
    /\ \/ /\ rows' = RepairMalformedSettings
          /\ running' = loadFromDatabase(rows')
          /\ UNCHANGED faults
       \/ Fault /\ running' = loadFromDatabase(rows) /\ UNCHANGED rows
       \/ Fault /\ rows' = RepairMalformedSettings /\ running' = [k \in Keys |-> Absent]
    /\ UNCHANGED <<admin, requests>>

\* Initialize of the provider manager keeps one provider per type, the last.
EngineToken(k, t) ==
    LET v == running[k]
        of == {i \in DOMAIN v : TypeOf[v[i].name] = t}
    IN IF of = {} THEN None ELSE v[CHOOSE i \in of : \A j \in of : j <= i].secret

-----------------------------------------------------------------------------
\* GetAllSettings, GetSettingsByCategory: one query.  history: truth is what
\* was stored then.
View(a) ==
    /\ running # None /\ admin[a] = Idle
    /\ requests < MaxRequests /\ requests' = requests + 1
    /\ LET shown == [k \in Keys |-> IF Stored(k) = Absent THEN Absent ELSE maskSettingsValue(Stored(k))]
       IN admin' = [admin EXCEPT ![a] = [step |-> "view", draft |-> shown, truth |-> Live,
                                         scope |-> {}, used |-> None]]
    /\ UNCHANGED <<rows, running, faults>>

\* external: the settings page.  A secret is typed, an item added in the last
\* place or removed, a setting added or removed.
Edits(v) ==
    IF v = Absent THEN {<<[name |-> n, secret |-> Typed]>> : n \in Names}
    ELSE {Absent}
         \cup {[v EXCEPT ![i].secret = Typed] : i \in DOMAIN v}
         \cup {Append(v, [name |-> n, secret |-> Typed]) : n \in Names \ {v[i].name : i \in DOMAIN v}}
         \cup {RemoveAt(v, i) : i \in DOMAIN v}
Edit(a) ==
    /\ admin[a].step = "view"
    /\ \E k \in Keys : \E v \in Edits(admin[a].draft[k]) :
          admin' = [admin EXCEPT ![a].draft[k] = v, ![a].step = "edited", ![a].used = None]
    /\ UNCHANGED <<rows, running, requests, faults>>

\* ApplySettings sends all categories, UpdateSettingsByCategory one.
Send(a) ==
    /\ running # None /\ admin[a].step \in {"view", "edited"}
    /\ \E s \in {Categories} \cup {{c} : c \in Categories} :
          admin' = [admin EXCEPT ![a].step = "apply", ![a].scope = s, ![a].used = None]
    /\ UNCHANGED <<rows, running, requests, faults>>

\* A setting of the request: its row is updated, created, or restored after a
\* deletion; old is the value that is known to be there.
Upsert(k, v, old) ==
    [state |-> "live", value |-> IF rows[k].state = "live" THEN restoreMaskedValues(v, old) ELSE v]

\* One transaction per category; a setting that is not in the request is
\* deleted.  If the existing rows cannot be read the transaction goes on as
\* if there were none.
SetCategory(a, c, readable) ==
    LET draft == admin[a].draft IN
    rows' = [k \in Keys |->
               IF k \notin KeysOf(c) THEN rows[k]
               ELSE IF draft[k] # Absent
                    THEN Upsert(k, draft[k], IF readable THEN rows[k].value ELSE <<>>)
               ELSE IF readable /\ rows[k].state = "live" THEN [rows[k] EXCEPT !.state = "deleted"]
               ELSE rows[k]]

\* With its last category the request ends.
After(a, c) == IF admin[a].scope = {c} THEN Idle ELSE [admin[a] EXCEPT !.scope = @ \ {c}]

\* A statement that fails rolls its category back and ends the request.
Apply(a) ==
    /\ admin[a].step = "apply"
    /\ \E c \in admin[a].scope :
          \/ /\ SetCategory(a, c, TRUE) /\ UNCHANGED faults
             /\ admin' = [admin EXCEPT ![a] = After(a, c)]
          \/ /\ Fault /\ SetCategory(a, c, FALSE)
             /\ admin' = [admin EXCEPT ![a] = After(a, c)]
          \/ Fault /\ admin' = [admin EXCEPT ![a] = Idle] /\ UNCHANGED rows
    /\ UNCHANGED <<running, requests>>

-----------------------------------------------------------------------------
\* getRealProviderCredentials: the first stored provider of a type;
\* getRealAgentConfig and GetNotificationConfig find one item at most.
getRealProviderCredentials(k, t) ==
    LET v == Stored(k)
        of == {i \in DOMAIN v : TypeOf[v[i].name] = t}
    IN IF v = Absent \/ of = {} THEN Absent ELSE v[CHOOSE i \in of : \A j \in of : i <= j]

\* TestGitProvider, TestAgent, TestNotificationConfig: an item of the draft is
\* tried; a masked secret stands for the stored one.  With no stored provider
\* the test is refused, with no stored agent it goes on with the mask.
Test(a, k) ==
    /\ running # None /\ admin[a].step \in {"view", "edited"} /\ admin[a].draft[k] # Absent
    /\ \E i \in DOMAIN admin[a].draft[k] :
          LET item == admin[a].draft[k][i]
              real == getRealProviderCredentials(k, TypeOf[item.name])
              with == IF isMaskedValue(item.secret) /\ real # Absent THEN real.secret ELSE item.secret
          IN admin' = [admin EXCEPT ![a].used = [key |-> k, name |-> item.name, secret |-> with]]
    /\ UNCHANGED <<rows, running, requests, faults>>

\* The process is started again.
Restart ==
    /\ running # None
    /\ running' = None
    /\ admin' = [a \in Admins |-> IF admin[a].step = "apply" THEN Idle ELSE admin[a]]
    /\ UNCHANGED <<rows, requests, faults>>

Next ==
    \/ Start \/ Restart
    \/ \E a \in Admins : View(a) \/ Edit(a) \/ Send(a) \/ Apply(a) \/ \E k \in Keys : Test(a, k)

Spec == Init /\ [][Next]_vars

-----------------------------------------------------------------------------
\* What an administrator means by a setting: a mask stands for the secret of
\* the item of that name that he has been shown.
Meant(a, k) ==
    LET draft == admin[a].draft[k]
        truth == admin[a].truth[k]
        shown(i) == truth[CHOOSE j \in DOMAIN truth : truth[j].name = draft[i].name].secret
    IN IF draft = Absent THEN Absent
       ELSE [i \in DOMAIN draft |->
               IF isMaskedValue(draft[i].secret) THEN [draft[i] EXCEPT !.secret = shown(i)] ELSE draft[i]]

\* He has moved no item that still has its mask.
InPlace(a, k) ==
    LET draft == admin[a].draft[k]
        truth == admin[a].truth[k]
    IN draft = Absent \/
       \A i \in DOMAIN draft :
          isMaskedValue(draft[i].secret) => i \in DOMAIN truth /\ truth[i].name = draft[i].name

Applies(a, c) ==
    /\ admin[a].step = "apply" /\ c \in admin[a].scope /\ running' = running
    /\ admin'[a] = Idle \/ c \notin admin'[a].scope

\* A category that is sent back is stored as it was meant, secrets, removed
\* settings and settings that were there before included, if nobody else has
\* changed it since it was shown, no masked item was moved and the database
\* does not fail.
StoredAsMeant ==
    [][\A a \in Admins, c \in Categories :
        (Applies(a, c) /\ faults' = faults
            /\ \A k \in KeysOf(c) : Stored(k) = admin[a].truth[k] /\ InPlace(a, k))
        => \A k \in KeysOf(c) : Stored(k)' = Meant(a, k)]_vars

\* config/settings.go:162, "the original value is preserved": the same for an
\* array from which an item was removed.
OriginalsPreserved ==
    [][\A a \in Admins, c \in Categories :
        (Applies(a, c) /\ faults' = faults /\ \A k \in KeysOf(c) : Stored(k) = admin[a].truth[k])
        => \A k \in KeysOf(c) : Stored(k)' = Meant(a, k)]_vars

\* A test of an item whose secret is masked tries the secret the engine uses,
\* as long as the settings are those the server started with and there is one
\* item of its type.
TestTriesTheSame ==
    [][\A a \in Admins :
        (admin[a].step \in {"view", "edited"} /\ admin'[a].step = admin[a].step
            /\ admin'[a].used # None /\ admin'[a].used # admin[a].used) =>
          LET k == admin'[a].used.key
              t == TypeOf[admin'[a].used.name]
              masked == \E i \in DOMAIN admin[a].draft[k] :
                           /\ admin[a].draft[k][i].name = admin'[a].used.name
                           /\ isMaskedValue(admin[a].draft[k][i].secret)
          IN (masked /\ Stored(k) # Absent /\ running[k] = Stored(k)
                /\ Cardinality({i \in DOMAIN Stored(k) : TypeOf[Stored(k)[i].name] = t}) = 1)
             => admin'[a].used.secret = EngineToken(k, t)]_vars

\* api/handler/settings.go:204, "triggers hot-reload of Git providers in all
\* engines": the engine uses the providers that are stored.
ProvidersFollowSettings == running # None => \A k \in Keys : running[k] = Stored(k)
=============================================================================
