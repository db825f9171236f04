------------------------------ MODULE Settings ------------------------------
(***************************************************************************)
(* The settings of the service: the layers ConfigurationManager            *)
(* (configuration.py) puts on one another, the versioned overrides in the  *)
(* store, the routes that change them (api.py), what a start makes of them *)
(* (deployment.py, create_app), and the people who change them: dialogues  *)
(* of pitblu-core-config (config_cli.py) and REST clients, any number at   *)
(* once, who read, think, write, and restart the service.                  *)
(*                                                                         *)
(* A request is one step: no handler of these routes suspends between      *)
(* reading the settings and having stored them.  Three settings stand for  *)
(* all: two that are tied to one another by a rule of the whole model and  *)
(* one that is free.                                                       *)
(***************************************************************************)
EXTENDS Naturals

CONSTANTS
  Clients,     \* people with a dialogue or a REST client
  Nobody,      \* Python's None
  Hosts,       \* what the startup files may say: yaml, environment, managed
  MaxVersion   \* bound: the version at which no more is saved

ASSUME NobodyAssumption == Nobody \notin Clients
ASSUME MaxVersionAssumption == MaxVersion \in Nat \ {0}

VARIABLES
  host,                          \* the startup files as they are now
  overrides, version,            \* config_overrides and config_version
  token, password,               \* is a token stored; who stored the broker's password
  service,                       \* the process: down, up or failed to start
  values, persisted, known,      \* _values, _persisted, _version of the live manager
  startup, credential,           \* the settings and the password the workers run with
  started,                       \* the startup files the process has read
  pc, kind, etag, answer,        \* the dialogues
  based, savedAt                 \* overrides a dialogue has seen; the version it has saved

store == <<overrides, version, token, password>>
memory == <<service, values, persisted, known, startup, credential, started>>
dialogues == <<pc, kind, etag, answer, based, savedAt>>
vars == <<host, store, memory, dialogues>>

(***************************************************************************)
(* Layers                                                                  *)
(***************************************************************************)
Names == {"bind", "mode", "mqtt"}
Values == [bind: {"loopback", "all"}, mode: {"disabled", "token"}, mqtt: {"off", "on"}]
Default == [bind |-> "loopback", mode |-> "disabled", mqtt |-> "off"]

Over(f, g) == [n \in DOMAIN f \cup DOMAIN g |-> IF n \in DOMAIN f THEN f[n] ELSE g[n]]

Part(f, names) == [n \in names |-> f[n]]
Layers == UNION {{Part(v, names) : v \in Values} : names \in SUBSET Names}

\* _apply_layer raises for a setting it does not know.
FamiliarFault(layer) == TRUE
Familiar(layer) == DOMAIN layer \subseteq Names

ValidFault(v) == TRUE
Valid(v) == v.bind = "loopback" \/ v.mode = "token"

\* The persisted overrides are the last layer.
EffectiveFault(h, o) == Over(h.environment, Over(o, Over(h.yaml, Default)))
Effective(h, o) == Over(o, Over(h.environment, Over(h.yaml, Default)))

\* Startup files have values of the settings' types, which the fields of the models insist on.
ASSUME HostsAssumption ==
  \A h \in Hosts : \A layer \in {h.yaml, h.environment} :
    DOMAIN layer \subseteq Names => layer \in Layers

Loads(h, o) == Familiar(h.yaml) /\ Familiar(h.environment) /\ Valid(Effective(h, o))

\* A managed service wants token authentication and a token it need not print.
Startable(h, o, t) ==
  /\ Loads(h, o)
  /\ h.managed => Effective(h, o).mode = "token" /\ t

(***************************************************************************)
(* The process                                                             *)
(***************************************************************************)
Init ==
  /\ host \in Hosts
  /\ overrides = <<>> /\ version = 1
  /\ token \in BOOLEAN /\ password = Nobody
  /\ service = "down"
  /\ values = Default /\ persisted = <<>> /\ known = 0
  /\ startup = Default /\ credential = Nobody /\ started = host
  /\ pc = [c \in Clients |-> "idle"]
  /\ kind = [c \in Clients |-> "rest"]
  /\ etag = [c \in Clients |-> 0]
  /\ answer = [c \in Clients |-> <<>>]
  /\ based = [c \in Clients |-> <<>>]
  /\ savedAt = [c \in Clients |-> 0]

\* create_app: the workers take the settings of this moment; a service that wants a
\* token and has none makes one and prints it.
Booted(effective) ==
  /\ startup' = effective
  /\ token' = (token \/ effective.mode = "token")

\* lifespan: the publisher takes the stored password when it is created.
Publishes(effective) == credential' = IF effective.mqtt = "on" THEN password ELSE Nobody

\* run: the manager is loaded, then the application is made and served.
Start ==
  /\ service = "down"
  /\ Startable(host, overrides, token)
  /\ service' = "up"
  /\ started' = host
  /\ values' = Effective(host, overrides)
  /\ persisted' = overrides
  /\ known' = version
  /\ Booted(Effective(host, overrides))
  /\ Publishes(Effective(host, overrides))
  /\ UNCHANGED <<host, overrides, version, password, dialogues>>

StartFails ==
  /\ service = "down"
  /\ ~Startable(host, overrides, token)
  /\ service' = "failed"
  /\ UNCHANGED <<host, store, values, persisted, known, startup, credential, started, dialogues>>

\* What a process that is gone knew is of no further interest.
Gone ==
  /\ service' = "down"
  /\ values' = Default /\ persisted' = <<>> /\ known' = 0
  /\ startup' = Default /\ credential' = Nobody /\ started' = host

\* The process dies, or systemd tries a failed one again.
Crash ==
  /\ service # "down"
  /\ Gone
  /\ UNCHANGED <<host, store, dialogues>>

\* The operator edits the startup files.
Edit(h) ==
  /\ h # host
  /\ host' = h
  /\ started' = IF service = "up" THEN started ELSE h
  /\ UNCHANGED <<store, service, values, persisted, known, startup, credential, dialogues>>

\* pitblu-state bootstrap, with the service stopped.
Bootstrap ==
  /\ service = "down"
  /\ ~token
  /\ token' = TRUE
  /\ UNCHANGED <<host, overrides, version, password, memory, dialogues>>

\* POST /api/v1/auth/token/rotate
Rotate ==
  /\ service = "up"
  /\ ~token
  /\ token' = TRUE
  /\ UNCHANGED <<host, overrides, version, password, memory, dialogues>>

(***************************************************************************)
(* PATCH /api/v1/config                                                    *)
(***************************************************************************)
\* validate_patch: the candidate is the whole model with the new values.
CandidateFault(patch) == Familiar(patch) /\ Valid(Over(patch, Default))
Candidate(patch) == Familiar(patch) /\ Valid(Over(patch, values))

\* Token mode needs a token that somebody has seen.
Backed(patch) == "mode" \in DOMAIN patch /\ patch.mode = "token" => token

\* replace_config, in one transaction: refused unless the version is the expected one.
MatchesFault(expected) == TRUE
Matches(expected) == version = expected

Replaced(all) == overrides' = all /\ version' = version + 1

\* The manager follows the store, and only when the store has accepted.
FollowFault(patch) ==
  /\ values' = Over(patch, values)
  /\ persisted' = Over(patch, persisted)
  /\ known' = version
Follow(patch) ==
  /\ values' = Over(patch, values)
  /\ persisted' = Over(patch, persisted)
  /\ known' = version'

(***************************************************************************)
(* Dialogues                                                               *)
(***************************************************************************)
Goto(c, place) == pc' = [pc EXCEPT ![c] = place]

\* The command returns, or the client has its answer; both may begin again.
Ends(c) ==
  /\ Goto(c, "idle")
  /\ kind' = [kind EXCEPT ![c] = "rest"]
  /\ etag' = [etag EXCEPT ![c] = 0]
  /\ answer' = [answer EXCEPT ![c] = <<>>]
  /\ based' = [based EXCEPT ![c] = <<>>]
  /\ savedAt' = [savedAt EXCEPT ![c] = 0]

\* What a dialogue may want to change.
Answers(k) ==
  CASE k = "mqtt" -> {[mqtt |-> "on"], [mqtt |-> "off"]}
    [] k = "api" -> {[bind |-> b, mode |-> "token"] : b \in {"loopback", "all"}}
    [] k = "rest" -> {[mode |-> "disabled"], [bind |-> "all"], [mode |-> "token"],
                      [other |-> "on"]}

\* GET /api/v1/config: values and version, which become the dialogue's ETag.
Read(c, k) ==
  /\ pc[c] = "idle"
  /\ service = "up"
  /\ kind' = [kind EXCEPT ![c] = k]
  /\ etag' = [etag EXCEPT ![c] = known]
  /\ based' = [based EXCEPT ![c] = persisted]
  /\ Goto(c, "asking")
  /\ UNCHANGED <<host, store, memory, answer, savedAt>>

\* The questions of mqtt and api; a REST client asks its own.
Decide(c) ==
  /\ pc[c] = "asking"
  /\ \E a \in Answers(kind[c]) :
       /\ answer' = [answer EXCEPT ![c] = a]
       /\ Goto(c, IF kind[c] = "rest" THEN "saving" ELSE "validating")
  /\ UNCHANGED <<host, store, memory, kind, etag, based, savedAt>>

\* "Confirm network exposure?" is answered with no: nothing is saved.
Decline(c) ==
  /\ pc[c] = "asking"
  /\ kind[c] = "api"
  /\ Ends(c)
  /\ UNCHANGED <<host, store, memory>>

\* _save_configuration asks for a validation first.
Validate(c) ==
  /\ pc[c] = "validating"
  /\ service = "up"
  /\ IF Candidate(answer[c])
       THEN Goto(c, "saving") /\ UNCHANGED <<kind, etag, answer, based, savedAt>>
       ELSE Ends(c)
  /\ UNCHANGED <<host, store, memory>>

Acceptable(c) ==
  /\ Backed(answer[c])
  /\ Candidate(answer[c])
  /\ Matches(etag[c])

\* What follows a save; its answer may be lost, then the command fails.
Proceeds(c) ==
  /\ kind[c] # "rest"
  /\ Goto(c, IF kind[c] = "mqtt" THEN "password" ELSE "offering")
  /\ savedAt' = [savedAt EXCEPT ![c] = version']
  /\ UNCHANGED <<kind, etag, answer, based>>

Save(c) ==
  /\ pc[c] = "saving"
  /\ service = "up"
  /\ version < MaxVersion
  /\ Acceptable(c)
  /\ Replaced(Over(answer[c], persisted))
  /\ Follow(answer[c])
  /\ Proceeds(c) \/ Ends(c)
  /\ UNCHANGED <<host, token, password, service, startup, credential, started>>

Refused(c) ==
  /\ pc[c] = "saving"
  /\ service = "up"
  /\ ~Acceptable(c)
  /\ Ends(c)
  /\ UNCHANGED <<host, store, memory>>

\* After the settings, the password: stored when MQTT is on, removed when it is off.
PutPassword(c) ==
  /\ pc[c] = "password"
  /\ service = "up"
  /\ password' = IF answer[c].mqtt = "on" THEN c ELSE Nobody
  /\ Goto(c, "offering")
  /\ UNCHANGED <<host, overrides, version, token, memory, kind, etag, answer, based, savedAt>>

KeepPassword(c) ==
  /\ pc[c] = "password"
  /\ Goto(c, "offering")
  /\ UNCHANGED <<host, store, memory, kind, etag, answer, based, savedAt>>

\* Any request may fail: no connection, a refused token, a time-out; so may systemctl.
RequestFails(c) ==
  /\ pc[c] \in {"validating", "saving", "password", "offering", "verifying"}
  /\ Ends(c)
  /\ UNCHANGED <<host, store, memory>>

\* _offer_restart: no.
Later(c) ==
  /\ pc[c] = "offering"
  /\ Ends(c)
  /\ UNCHANGED <<host, store, memory>>

\* _offer_restart: yes.  systemctl returns when the old process has ended.
Restart(c) ==
  /\ pc[c] = "offering"
  /\ Gone
  /\ Goto(c, "verifying")
  /\ UNCHANGED <<host, store, kind, etag, answer, based, savedAt>>

\* pitblu-core-config restart: the same without a save before it.
RestartNow(c) ==
  /\ pc[c] = "idle"
  /\ Gone
  /\ Goto(c, "verifying")
  /\ UNCHANGED <<host, store, kind, etag, answer, based, savedAt>>

\* wait_for_health
Verify(c) ==
  /\ pc[c] = "verifying"
  /\ service = "up"
  /\ Goto(c, "applied")
  /\ UNCHANGED <<host, store, memory, kind, etag, answer, based, savedAt>>

\* Control-C at a prompt.
Interrupt(c) ==
  /\ pc[c] \in {"asking", "password", "offering"}
  /\ kind[c] # "rest"
  /\ Goto(c, "cancelled")
  /\ UNCHANGED <<host, store, memory, kind, etag, answer, based, savedAt>>

Leave(c) ==
  /\ pc[c] \in {"applied", "cancelled"}
  /\ Ends(c)
  /\ UNCHANGED <<host, store, memory>>

Dialogue(c) ==
  \/ \E k \in {"mqtt", "api", "rest"} : Read(c, k)
  \/ Decide(c) \/ Decline(c) \/ Validate(c) \/ Save(c) \/ Refused(c)
  \/ PutPassword(c) \/ KeepPassword(c) \/ RequestFails(c)
  \/ Later(c) \/ Restart(c) \/ RestartNow(c) \/ Verify(c) \/ Interrupt(c) \/ Leave(c)

Next ==
  \/ Start \/ StartFails \/ Crash \/ Bootstrap \/ Rotate
  \/ \E h \in Hosts : Edit(h)
  \/ \E c \in Clients : Dialogue(c)

Spec == Init /\ [][Next]_vars

(***************************************************************************)
(* Properties                                                              *)
(***************************************************************************)
Pcs == {"idle", "asking", "validating", "saving", "password", "offering", "verifying",
        "applied", "cancelled"}
Patches == {<<>>} \cup UNION {Answers(k) : k \in {"mqtt", "api", "rest"}}

\* Every variable keeps its type; the overrides hold known settings only.
TypeOK ==
  /\ host \in Hosts /\ started \in Hosts
  /\ overrides \in Layers /\ persisted \in Layers
  /\ version \in 0..MaxVersion /\ known \in 0..MaxVersion
  /\ token \in BOOLEAN
  /\ password \in Clients \cup {Nobody} /\ credential \in Clients \cup {Nobody}
  /\ service \in {"down", "up", "failed"}
  /\ values \in Values /\ startup \in Values
  /\ pc \in [Clients -> Pcs]
  /\ kind \in [Clients -> {"mqtt", "api", "rest"}]
  /\ etag \in [Clients -> 0..MaxVersion]
  /\ answer \in [Clients -> Patches]
  /\ based \in [Clients -> Layers]
  /\ savedAt \in [Clients -> 0..MaxVersion]

\* What the live manager answers from is what the store holds, through refused, conflicting
\* and lost requests: a refused save has changed nothing, an accepted one both
\* (ConfigurationManager.update, replace_config).
MemoryIsStore ==
  service = "up" =>
    /\ persisted = overrides
    /\ known = version
    /\ values = Effective(started, overrides)

\* Nobody's settings are overwritten unseen: who saves has read the overrides that its save
\* replaces, however many others have saved and however often the service was restarted
\* between its reading and its saving (If-Match of PATCH /api/v1/config).
NobodyOverwritten ==
  [][version' # version =>
       \E c \in Clients : pc[c] = "saving" /\ pc'[c] # "saving" /\ based[c] = overrides]_vars

\* What was accepted can be started: while the startup files are those the process has read,
\* a restart loads what is stored now - but for a managed service whose authentication was
\* switched off, which the route accepts and the next start refuses.
StartsAgain ==
  service = "up" /\ host = started =>
    \/ Startable(host, overrides, token)
    \/ host.managed /\ values.mode = "disabled"

\* The strict form: docs/configuration.md promises that invalid settings are not saved.
SavedStarts ==
  service = "up" /\ host = started => Startable(host, overrides, token)

\* A dialogue that reports success after a restart tells the truth: unless somebody has
\* saved since, the workers run with what it saved, and the publisher with its password.
AppliedRuns ==
  \A c \in Clients : pc[c] = "applied" /\ service = "up" =>
    /\ version = savedAt[c] =>
         \A n \in DOMAIN answer[c] : startup[n] = answer[c][n]
    /\ kind[c] = "mqtt" /\ password = c /\ startup.mqtt = "on" => credential = c

\* "Configuration cancelled; incomplete changes were not submitted." (config_cli.py)
CancelledUntouched == \A c \in Clients : pc[c] = "cancelled" => savedAt[c] = 0
=============================================================================
