---------------------------- MODULE SettingsProofs ----------------------------
(***************************************************************************)
(* What Settings promises for any number of dialogues, any startup files   *)
(* and any number of saves.                                                *)
(***************************************************************************)
EXTENDS Settings, TLAPS

(***************************************************************************)
(* Layers                                                                  *)
(***************************************************************************)
LEMMA OverAssociative ==
  ASSUME NEW f, NEW g, NEW h PROVE Over(f, Over(g, h)) = Over(Over(f, g), h)
<1>1. DOMAIN Over(g, h) = DOMAIN g \cup DOMAIN h /\ DOMAIN Over(f, g) = DOMAIN f \cup DOMAIN g
  BY DEF Over
<1>2. \A n \in DOMAIN g \cup DOMAIN h : Over(g, h)[n] = IF n \in DOMAIN g THEN g[n] ELSE h[n]
  BY DEF Over
<1>3. \A n \in DOMAIN f \cup DOMAIN g : Over(f, g)[n] = IF n \in DOMAIN f THEN f[n] ELSE g[n]
  BY DEF Over
<1> DEFINE names == DOMAIN f \cup DOMAIN g \cup DOMAIN h
           value(n) == IF n \in DOMAIN f THEN f[n] ELSE IF n \in DOMAIN g THEN g[n] ELSE h[n]
<1>4. Over(f, Over(g, h)) = [n \in names |-> value(n)]
  <2>1. Over(f, Over(g, h)) = [n \in DOMAIN f \cup DOMAIN Over(g, h) |->
                                IF n \in DOMAIN f THEN f[n] ELSE Over(g, h)[n]]
    BY DEF Over
  <2>2. DOMAIN f \cup DOMAIN Over(g, h) = names
    BY <1>1
  <2>3. \A n \in names : (IF n \in DOMAIN f THEN f[n] ELSE Over(g, h)[n]) = value(n)
    BY <1>2
  <2> QED BY <2>1, <2>2, <2>3
<1>5. Over(Over(f, g), h) = [n \in names |-> value(n)]
  <2>1. Over(Over(f, g), h) = [n \in DOMAIN Over(f, g) \cup DOMAIN h |->
                                IF n \in DOMAIN Over(f, g) THEN Over(f, g)[n] ELSE h[n]]
    BY DEF Over
  <2>2. DOMAIN Over(f, g) \cup DOMAIN h = names
    BY <1>1
  <2>3. \A n \in names :
          (IF n \in DOMAIN Over(f, g) THEN Over(f, g)[n] ELSE h[n]) = value(n)
    BY <1>1, <1>3
  <2> QED BY <2>1, <2>2, <2>3
<1> QED BY <1>4, <1>5

(***************************************************************************)
(* The invariant                                                           *)
(***************************************************************************)
\* A dialogue that has not saved yet has an ETag of the past; and if it is that of the present,
\* it has seen the present overrides.
Knows(place, tag, base) ==
  place \in {"asking", "validating", "saving"} =>
    tag <= version /\ (tag = version => base = overrides)

SettingsIInv ==
  /\ version \in Nat
  /\ MemoryIsStore
  /\ pc \in [Clients -> Pcs] /\ etag \in [Clients -> Nat] /\ DOMAIN based = Clients
  /\ based = [c \in Clients |-> based[c]]
  /\ \A c \in Clients : Knows(pc[c], etag[c], based[c])

LEMMA SettingsInitial == Init => SettingsIInv
BY DEF Init, SettingsIInv, MemoryIsStore, Knows, Pcs

\* A step of one dialogue.
LEMMA OneDialogue ==
  ASSUME SettingsIInv, version' \in Nat, version <= version', overrides' = overrides \/ version < version',
         MemoryIsStore',
         NEW c \in Clients,
         NEW p \in Pcs, pc' = [pc EXCEPT ![c] = p],
         NEW e \in Nat, etag' = [etag EXCEPT ![c] = e],
         NEW b, based' = [based EXCEPT ![c] = b],
         Knows(p, e, b)'
  PROVE  SettingsIInv'
<1>1. /\ pc' \in [Clients -> Pcs] /\ etag' \in [Clients -> Nat]
      /\ DOMAIN based' = Clients /\ based' = [d \in Clients |-> based'[d]]
  BY DEF SettingsIInv
<1>2. \A d \in Clients \ {c} : pc'[d] = pc[d] /\ etag'[d] = etag[d] /\ based'[d] = based[d]
  BY DEF SettingsIInv
<1>3. pc'[c] = p /\ etag'[c] = e /\ based'[c] = b
  BY DEF SettingsIInv
<1> QED BY <1>1, <1>2, <1>3 DEF SettingsIInv, Knows

\* What is known of one dialogue, for its steps.
LEMMA OfOneDialogue ==
  ASSUME SettingsIInv, NEW c \in Clients
  PROVE  /\ pc[c] \in Pcs /\ etag[c] \in Nat /\ version \in Nat
         /\ pc = [pc EXCEPT ![c] = pc[c]] /\ etag = [etag EXCEPT ![c] = etag[c]]
         /\ based = [based EXCEPT ![c] = based[c]]
         /\ Knows(pc[c], etag[c], based[c])
BY DEF SettingsIInv

\* Steps that leave store and process alone.
LEMMA Thinking ==
  ASSUME SettingsIInv, UNCHANGED <<store, memory>>, NEW c \in Clients,
         NEW p \in Pcs, pc' = [pc EXCEPT ![c] = p],
         NEW e \in Nat, etag' = [etag EXCEPT ![c] = e],
         NEW b, based' = [based EXCEPT ![c] = b],
         Knows(p, e, b)
  PROVE  SettingsIInv'
<1>1. version' = version /\ overrides' = overrides /\ version \in Nat /\ version <= version
  BY DEF store, SettingsIInv
<1>2. MemoryIsStore'
  BY DEF store, memory, MemoryIsStore, SettingsIInv
<1>3. Knows(p, e, b)'
  BY <1>1 DEF Knows
<1> QED BY <1>1, <1>2, <1>3, OneDialogue

LEMMA Placed == {"idle", "asking", "validating", "saving", "password", "offering", "verifying",
                 "applied", "cancelled"} \subseteq Pcs
BY DEF Pcs

\* Going on to a place where nothing is to be saved any more.
LEMMA GoesOn ==
  ASSUME SettingsIInv, UNCHANGED <<store, memory, etag, based>>, NEW c \in Clients,
         NEW p \in Pcs, Goto(c, p),
         p \in {"asking", "validating", "saving"} => pc[c] \in {"asking", "validating", "saving"}
  PROVE  SettingsIInv'
<1>1. pc' = [pc EXCEPT ![c] = p] /\ etag' = [etag EXCEPT ![c] = etag[c]]
      /\ based' = [based EXCEPT ![c] = based[c]]
  BY OfOneDialogue DEF Goto
<1>2. Knows(p, etag[c], based[c])
  BY OfOneDialogue DEF Knows
<1> QED BY <1>1, <1>2, OfOneDialogue, Thinking

LEMMA EndsStep ==
  ASSUME SettingsIInv, UNCHANGED <<store, memory>>, NEW c \in Clients, Ends(c)
  PROVE  SettingsIInv'
<1>1. pc' = [pc EXCEPT ![c] = "idle"] /\ etag' = [etag EXCEPT ![c] = 0] /\ based' = [based EXCEPT ![c] = <<>>]
  BY DEF Ends, Goto
<1>2. Knows("idle", 0, <<>>) /\ 0 \in Nat
  BY DEF Knows
<1> QED BY <1>1, <1>2, Placed, Thinking

\* The process ends; only this dialogue goes on.
LEMMA RestartStep ==
  ASSUME SettingsIInv, NEW c \in Clients, Gone, Goto(c, "verifying"), UNCHANGED <<store, etag, based>>
  PROVE  SettingsIInv'
<1>1. version' = version /\ overrides' = overrides /\ version \in Nat /\ version <= version
  BY DEF store, SettingsIInv
<1>2. MemoryIsStore'
  BY DEF Gone, MemoryIsStore
<1>3. Knows("verifying", etag[c], based[c])'
  BY DEF Knows
<1>4. pc' = [pc EXCEPT ![c] = "verifying"] /\ etag' = [etag EXCEPT ![c] = etag[c]]
      /\ based' = [based EXCEPT ![c] = based[c]]
  BY OfOneDialogue DEF Goto
<1> QED BY <1>1, <1>2, <1>3, <1>4, OfOneDialogue, Placed, OneDialogue

LEMMA SaveStep == ASSUME SettingsIInv, NEW c \in Clients, Save(c) PROVE SettingsIInv'
<1>1. /\ service = "up" /\ version' = version + 1 /\ overrides' = Over(answer[c], persisted)
      /\ values' = Over(answer[c], values) /\ persisted' = Over(answer[c], persisted)
      /\ known' = version' /\ service' = service /\ started' = started
  BY DEF Save, Replaced, Follow
<1>2. values = Effective(started, overrides) /\ persisted = overrides
  BY <1>1 DEF SettingsIInv, MemoryIsStore
<1>3. values' = Effective(started', overrides')
  BY <1>1, <1>2, OverAssociative DEF Effective
<1>4. MemoryIsStore'
  BY <1>1, <1>3 DEF MemoryIsStore
<1>5. version \in Nat /\ version + 1 \in Nat /\ version <= version + 1 /\ version < version + 1
  BY OfOneDialogue
<1>6. PICK p, e, b :
        /\ p \in Pcs /\ e \in Nat
        /\ p \notin {"asking", "validating", "saving"}
        /\ pc' = [pc EXCEPT ![c] = p] /\ etag' = [etag EXCEPT ![c] = e] /\ based' = [based EXCEPT ![c] = b]
  <2>1. CASE Ends(c)
    <3>1. pc' = [pc EXCEPT ![c] = "idle"] /\ etag' = [etag EXCEPT ![c] = 0] /\ based' = [based EXCEPT ![c] = <<>>]
      BY <2>1 DEF Ends, Goto
    <3> QED BY <3>1, Placed
  <2>2. CASE Proceeds(c)
    <3>1. PICK p \in {"password", "offering"} : pc' = [pc EXCEPT ![c] = p]
      BY <2>2 DEF Proceeds, Goto
    <3>2. etag' = [etag EXCEPT ![c] = etag[c]] /\ based' = [based EXCEPT ![c] = based[c]]
      BY <2>2, OfOneDialogue DEF Proceeds
    <3> QED BY <3>1, <3>2, OfOneDialogue, Placed
  <2> QED BY <2>1, <2>2 DEF Save
<1>7. Knows(p, e, b)'
  BY <1>6 DEF Knows
<1> QED BY <1>1, <1>4, <1>5, <1>6, <1>7, OneDialogue

LEMMA ReadStep ==
  ASSUME SettingsIInv, NEW c \in Clients, NEW k, Read(c, k) PROVE SettingsIInv'
<1>1. /\ pc' = [pc EXCEPT ![c] = "asking"] /\ etag' = [etag EXCEPT ![c] = known]
      /\ based' = [based EXCEPT ![c] = persisted]
      /\ service = "up" /\ UNCHANGED <<store, memory>>
  BY DEF Read, Goto
<1>2. known = version /\ persisted = overrides /\ version \in Nat
  BY <1>1 DEF SettingsIInv, MemoryIsStore
<1>3. Knows("asking", known, persisted)
  BY <1>2 DEF Knows
<1> QED BY <1>1, <1>2, <1>3, Placed, Thinking

LEMMA DialogueStep == ASSUME SettingsIInv, NEW c \in Clients, Dialogue(c) PROVE SettingsIInv'
<1>1. ASSUME Decide(c) PROVE SettingsIInv'
  <2>1. PICK p \in {"saving", "validating"} : Goto(c, p)
    BY <1>1 DEF Decide
  <2> QED BY <1>1, <2>1, GoesOn, Placed DEF Decide
<1>2. ASSUME Decline(c) \/ Refused(c) \/ RequestFails(c) \/ Later(c) \/ Leave(c) PROVE SettingsIInv'
  BY <1>2, EndsStep DEF Decline, Refused, RequestFails, Later, Leave
<1>3. ASSUME Validate(c) PROVE SettingsIInv'
  <2>1. CASE Candidate(answer[c])
    BY <1>3, <2>1, GoesOn, Placed DEF Validate
  <2>2. CASE ~Candidate(answer[c])
    BY <1>3, <2>2, EndsStep DEF Validate
  <2> QED BY <2>1, <2>2
<1>4. ASSUME PutPassword(c) PROVE SettingsIInv'
  <2>1. version' = version /\ overrides' = overrides /\ version \in Nat /\ version <= version
    BY <1>4 DEF PutPassword, SettingsIInv
  <2>2. MemoryIsStore'
    BY <1>4 DEF PutPassword, memory, MemoryIsStore, SettingsIInv
  <2>3. Knows("offering", etag[c], based[c])'
    BY DEF Knows
  <2>4. pc' = [pc EXCEPT ![c] = "offering"] /\ etag' = [etag EXCEPT ![c] = etag[c]]
        /\ based' = [based EXCEPT ![c] = based[c]]
    BY <1>4, OfOneDialogue DEF PutPassword, Goto
  <2> QED BY <2>1, <2>2, <2>3, <2>4, OfOneDialogue, Placed, OneDialogue
<1>5. ASSUME KeepPassword(c) \/ Verify(c) \/ Interrupt(c) PROVE SettingsIInv'
  <2>1. PICK p \in {"offering", "applied", "cancelled"} : Goto(c, p) /\ UNCHANGED <<store, memory, etag, based>>
    BY <1>5 DEF KeepPassword, Verify, Interrupt
  <2> QED BY <2>1, GoesOn, Placed
<1>6. ASSUME Restart(c) \/ RestartNow(c) PROVE SettingsIInv'
  BY <1>6, RestartStep DEF Restart, RestartNow
<1> QED BY <1>1, <1>2, <1>3, <1>4, <1>5, <1>6, SaveStep, ReadStep DEF Dialogue

\* Steps of the process, of the host and of the token.
LEMMA ProcessStep ==
  ASSUME SettingsIInv, UNCHANGED <<overrides, version, dialogues>>, MemoryIsStore' PROVE SettingsIInv'
BY DEF SettingsIInv, Knows, dialogues

LEMMA SettingsStep == SettingsIInv /\ [Next]_vars => SettingsIInv'
<1> SUFFICES ASSUME SettingsIInv, [Next]_vars PROVE SettingsIInv'
  OBVIOUS
<1>1. CASE Start
  <2>1. MemoryIsStore'
    BY <1>1 DEF Start, MemoryIsStore, Effective
  <2> QED BY <1>1, <2>1, ProcessStep DEF Start
<1>2. ASSUME StartFails \/ Crash PROVE SettingsIInv'
  <2>1. MemoryIsStore'
    BY <1>2 DEF StartFails, Crash, Gone, MemoryIsStore
  <2> QED BY <1>2, <2>1, ProcessStep DEF StartFails, Crash, store
<1>3. ASSUME Bootstrap \/ Rotate PROVE SettingsIInv'
  <2>1. MemoryIsStore'
    BY <1>3 DEF Bootstrap, Rotate, memory, MemoryIsStore, SettingsIInv
  <2> QED BY <1>3, <2>1, ProcessStep DEF Bootstrap, Rotate
<1>4. ASSUME NEW h \in Hosts, Edit(h) PROVE SettingsIInv'
  <2>1. MemoryIsStore'
    BY <1>4 DEF Edit, store, MemoryIsStore, SettingsIInv
  <2> QED BY <1>4, <2>1, ProcessStep DEF Edit, store
<1>5. ASSUME NEW c \in Clients, Dialogue(c) PROVE SettingsIInv'
  BY <1>5, DialogueStep
<1>6. CASE UNCHANGED vars
  <2>1. MemoryIsStore'
    BY <1>6 DEF vars, store, memory, MemoryIsStore, SettingsIInv
  <2> QED BY <1>6, <2>1, ProcessStep DEF vars, store
<1> QED BY <1>1, <1>2, <1>3, <1>4, <1>5, <1>6 DEF Next

\* The inductive invariant: memory and store, and the versions that the clients have read.
THEOREM SettingsHold == Spec => []SettingsIInv
BY SettingsInitial, SettingsStep, PTL DEF Spec

\* What the live manager answers from is what the store holds: for any number of dialogues and
\* saves and any startup files (ConfigurationManager, replace_config).
THEOREM MemoryFollowsStore == Spec => []MemoryIsStore
<1>1. SettingsIInv => MemoryIsStore
  BY DEF SettingsIInv
<1> QED BY <1>1, SettingsHold, PTL

\* Who saves has seen what its save replaces (If-Match of PATCH /api/v1/config).
THEOREM NobodyIsOverwritten == Spec => NobodyOverwritten
<1>1. ASSUME SettingsIInv, Next, version' # version
      PROVE  \E c \in Clients : pc[c] = "saving" /\ pc'[c] # "saving" /\ based[c] = overrides
  <2>1. PICK c \in Clients : Save(c)
    BY <1>1 DEF Next, Start, StartFails, Crash, Bootstrap, Rotate, Edit, Dialogue, Read, Decide, Decline,
                Validate, Refused, PutPassword, KeepPassword, RequestFails, Later, Restart, RestartNow,
                Verify, Interrupt, Leave, store
  <2>2. pc[c] = "saving" /\ etag[c] = version
    BY <2>1 DEF Save, Acceptable, Matches
  <2>3. based[c] = overrides
    BY <1>1, <2>2, OfOneDialogue DEF Knows
  <2>4. pc'[c] \in {"idle", "password", "offering"}
    BY <1>1, <2>1 DEF Save, Proceeds, Ends, Goto, SettingsIInv
  <2> QED BY <2>2, <2>3, <2>4
<1>2. SettingsIInv /\ [Next]_vars
        => [version' # version =>
              \E c \in Clients : pc[c] = "saving" /\ pc'[c] # "saving" /\ based[c] = overrides]_vars
  BY <1>1
<1> QED BY <1>2, SettingsHold, PTL DEF Spec, NobodyOverwritten

(***************************************************************************)
(* What was accepted, and what was restarted.                              *)
(***************************************************************************)
\* The process has read files and settings it could start with, and what it has accepted
\* since could be started too, but for the authentication of a managed service.
Accepted ==
  service = "up" =>
    /\ Familiar(started.yaml) /\ Familiar(started.environment) /\ Valid(values)
    /\ "mode" \in DOMAIN values
    /\ values.mode = "token" => token
    /\ started.managed => values.mode \in {"token", "disabled"}

\* A dialogue of client c at place p with answer a that has saved version s (0: none): while
\* that is the present version, its answer is in the store; and a process that has started
\* since runs with it, and with the password that c has stored.
Sound(c, p, a, s) ==
  /\ "mode" \in DOMAIN a => a.mode \in {"disabled", "token"}
  /\ s \in Nat /\ s <= version
  /\ p \in {"idle", "asking", "validating", "saving"} => s = 0
  /\ s = version => \A n \in DOMAIN a : n \in DOMAIN overrides /\ overrides[n] = a[n]
  /\ p \in {"verifying", "applied"} /\ service = "up" =>
       /\ s = version => \A n \in DOMAIN a : startup[n] = a[n]
       /\ password = c /\ startup.mqtt = "on" => credential = c

SoundIInv ==
  /\ version \in Nat \ {0} /\ Accepted
  /\ pc = [c \in Clients |-> pc[c]] /\ kind \in [Clients -> {"mqtt", "api", "rest"}]
  /\ answer = [c \in Clients |-> answer[c]] /\ savedAt = [c \in Clients |-> savedAt[c]]
  /\ \A c \in Clients : Sound(c, pc[c], answer[c], savedAt[c])

LEMMA NoAnswer == "mode" \notin DOMAIN <<>>
OBVIOUS

LEMMA OverValue ==
  ASSUME NEW f, NEW g
  PROVE  /\ DOMAIN Over(f, g) = DOMAIN f \cup DOMAIN g
         /\ \A n \in DOMAIN f : Over(f, g)[n] = f[n]
         /\ \A n \in DOMAIN g \ DOMAIN f : Over(f, g)[n] = g[n]
BY DEF Over

LEMMA OverMode ==
  ASSUME NEW f, NEW g, "mode" \in DOMAIN g
  PROVE  /\ "mode" \in DOMAIN Over(f, g)
         /\ Over(f, g).mode = IF "mode" \in DOMAIN f THEN f.mode ELSE g.mode
BY DEF Over

LEMMA EffectiveMode == ASSUME NEW h, NEW o PROVE "mode" \in DOMAIN Effective(h, o)
<1>1. "mode" \in DOMAIN Default
  BY DEF Default
<1>2. "mode" \in DOMAIN Over(h.yaml, Default)
  BY <1>1, OverMode
<1>3. "mode" \in DOMAIN Over(h.environment, Over(h.yaml, Default))
  BY <1>2, OverMode
<1> QED BY <1>3, OverMode DEF Effective

\* A step of one dialogue, if it leaves the others sound.
LEMMA SoundDialogue ==
  ASSUME SoundIInv, version' \in Nat \ {0}, Accepted', NEW c \in Clients,
         NEW p, pc' = [pc EXCEPT ![c] = p],
         NEW k \in {"mqtt", "api", "rest"}, kind' = [kind EXCEPT ![c] = k],
         NEW a, answer' = [answer EXCEPT ![c] = a],
         NEW s, savedAt' = [savedAt EXCEPT ![c] = s],
         Sound(c, p, a, s)',
         \A d \in Clients \ {c} : \A q, b, t : Sound(d, q, b, t) => Sound(d, q, b, t)'
  PROVE  SoundIInv'
<1>1. /\ pc' = [d \in Clients |-> IF d = c THEN p ELSE pc[d]]
      /\ answer' = [d \in Clients |-> IF d = c THEN a ELSE answer[d]]
      /\ savedAt' = [d \in Clients |-> IF d = c THEN s ELSE savedAt[d]]
      /\ kind' \in [Clients -> {"mqtt", "api", "rest"}]
  BY DEF SoundIInv
<1>2. \A d \in Clients : Sound(d, pc[d], answer[d], savedAt[d])
  BY DEF SoundIInv
<1>3. ASSUME NEW d \in Clients
      PROVE  \A q, b, t : q = pc'[d] /\ b = answer'[d] /\ t = savedAt'[d] => Sound(d, q, b, t)'
  <2>1. CASE d = c
    BY <1>1, <2>1
  <2>2. CASE d # c
    BY <1>1, <1>2, <2>2
  <2> QED BY <2>1, <2>2
<1>4. \A d \in Clients : Sound(d, pc[d], answer[d], savedAt[d])'
  BY <1>3 DEF Sound
<1> QED BY <1>1, <1>4 DEF SoundIInv

\* What is known of one dialogue.
LEMMA SoundOne ==
  ASSUME SoundIInv, NEW c \in Clients
  PROVE  /\ Sound(c, pc[c], answer[c], savedAt[c]) /\ kind[c] \in {"mqtt", "api", "rest"}
         /\ pc = [pc EXCEPT ![c] = pc[c]] /\ kind = [kind EXCEPT ![c] = kind[c]]
         /\ answer = [answer EXCEPT ![c] = answer[c]]
         /\ savedAt = [savedAt EXCEPT ![c] = savedAt[c]]
BY DEF SoundIInv

\* A dialogue that leaves store and process alone.
LEMMA SoundThinking ==
  ASSUME SoundIInv, UNCHANGED <<store, memory>>, NEW c \in Clients,
         NEW p, pc' = [pc EXCEPT ![c] = p],
         NEW k \in {"mqtt", "api", "rest"}, kind' = [kind EXCEPT ![c] = k],
         NEW a, answer' = [answer EXCEPT ![c] = a],
         NEW s, savedAt' = [savedAt EXCEPT ![c] = s],
         Sound(c, p, a, s)
  PROVE  SoundIInv'
<1>1. version' \in Nat \ {0} /\ Accepted'
  BY DEF SoundIInv, store, memory, Accepted
<1>2. \A d, q, b, t : Sound(d, q, b, t) => Sound(d, q, b, t)'
  BY DEF Sound, store, memory
<1> QED BY <1>1, <1>2, SoundDialogue

LEMMA SoundEnd == ASSUME SoundIInv, NEW c PROVE Sound(c, "idle", <<>>, 0)
BY NoAnswer DEF Sound, SoundIInv

LEMMA SoundEnds ==
  ASSUME SoundIInv, UNCHANGED <<store, memory>>, NEW c \in Clients, Ends(c) PROVE SoundIInv'
BY SoundEnd, SoundThinking DEF Ends, Goto

LEMMA SoundGoes ==
  ASSUME SoundIInv, UNCHANGED <<store, memory, kind, answer, savedAt>>, NEW c \in Clients,
         NEW p, Goto(c, p), Sound(c, p, answer[c], savedAt[c])
  PROVE  SoundIInv'
<1>1. /\ pc' = [pc EXCEPT ![c] = p] /\ kind' = [kind EXCEPT ![c] = kind[c]]
      /\ answer' = [answer EXCEPT ![c] = answer[c]]
      /\ savedAt' = [savedAt EXCEPT ![c] = savedAt[c]]
  BY SoundOne DEF Goto
<1> QED BY <1>1, SoundOne, SoundThinking

LEMMA SoundRestart ==
  ASSUME SoundIInv, UNCHANGED <<store, kind, answer, savedAt>>, NEW c \in Clients, Gone,
         Goto(c, "verifying")
  PROVE  SoundIInv'
<1>1. PICK a, t : a = answer[c] /\ t = savedAt[c]
  OBVIOUS
<1>2. /\ pc' = [pc EXCEPT ![c] = "verifying"] /\ kind' = [kind EXCEPT ![c] = kind[c]]
      /\ answer' = [answer EXCEPT ![c] = a] /\ savedAt' = [savedAt EXCEPT ![c] = t]
  BY <1>1, SoundOne DEF Goto
<1>3. version' \in Nat \ {0} /\ Accepted'
  BY DEF SoundIInv, store, Accepted, Gone
<1>4. \A d, q, b, u : Sound(d, q, b, u) => Sound(d, q, b, u)'
  BY DEF Sound, store, Gone
<1>5. Sound(c, pc[c], a, t)
  BY <1>1, SoundOne
<1>6. Sound(c, "verifying", a, t)'
  BY <1>5 DEF Sound, store, Gone
<1> QED BY <1>2, <1>3, <1>4, <1>6, SoundOne, SoundDialogue

LEMMA SoundSave == ASSUME SoundIInv, NEW c \in Clients, Save(c) PROVE SoundIInv'
<1>1. PICK a : a = answer[c]
  OBVIOUS
<1>2. /\ service = "up" /\ pc[c] = "saving" /\ version \in Nat \ {0} /\ version' = version + 1
      /\ overrides' = Over(a, persisted) /\ values' = Over(a, values)
      /\ UNCHANGED <<token, password, service, startup, credential, started>>
      /\ Valid(Over(a, values)) /\ Backed(a)
      /\ "mode" \in DOMAIN a => a.mode \in {"disabled", "token"}
  BY <1>1, SoundOne DEF Save, Replaced, Follow, Acceptable, Candidate, SoundIInv, Sound
<1>3. version' \in Nat \ {0} /\ version < version'
  BY <1>2
<1>4. Accepted'
  <2>1. "mode" \in DOMAIN values /\ (values.mode = "token" => token)
        /\ (started.managed => values.mode \in {"token", "disabled"})
        /\ Familiar(started.yaml) /\ Familiar(started.environment)
    BY <1>2 DEF SoundIInv, Accepted
  <2>2. "mode" \in DOMAIN values'
        /\ values'.mode = IF "mode" \in DOMAIN a THEN a.mode ELSE values.mode
    BY <1>2, <2>1, OverMode
  <2>3. values'.mode = "token" => token
    BY <1>2, <2>1, <2>2 DEF Backed
  <2>4. started.managed => values'.mode \in {"token", "disabled"}
    BY <1>2, <2>1, <2>2
  <2> QED BY <1>2, <2>1, <2>2, <2>3, <2>4 DEF Accepted
<1>5. \A d, q, b, t : d # c /\ Sound(d, q, b, t) => Sound(d, q, b, t)'
  BY <1>2, <1>3 DEF Sound
<1>6. ASSUME NEW p, NEW k \in {"mqtt", "api", "rest"}, NEW b, NEW t,
             pc' = [pc EXCEPT ![c] = p], kind' = [kind EXCEPT ![c] = k],
             answer' = [answer EXCEPT ![c] = b], savedAt' = [savedAt EXCEPT ![c] = t],
             Sound(c, p, b, t)'
      PROVE  SoundIInv'
  BY <1>3, <1>4, <1>5, <1>6, SoundDialogue
<1>7. CASE Ends(c)
  <2>1. Sound(c, "idle", <<>>, 0)'
    <3>1. 0 # version' /\ 0 <= version'
      BY <1>3
    <3> QED BY <3>1, NoAnswer DEF Sound
  <2> QED BY <1>6, <1>7, <2>1 DEF Ends, Goto
<1>8. CASE Proceeds(c)
  <2>1. PICK p, t, k : /\ p = IF kind[c] = "mqtt" THEN "password" ELSE "offering"
                       /\ t = version' /\ k = kind[c]
    OBVIOUS
  <2>2. /\ pc' = [pc EXCEPT ![c] = p] /\ savedAt' = [savedAt EXCEPT ![c] = t]
        /\ kind' = [kind EXCEPT ![c] = k] /\ answer' = [answer EXCEPT ![c] = a]
        /\ k \in {"mqtt", "api", "rest"} /\ p \in {"password", "offering"}
    BY <1>1, <1>8, <2>1, SoundOne DEF Proceeds, Goto
  <2>3. Sound(c, p, a, t)'
    <3>1. t \in Nat /\ t <= version'
      <4>1. t = version'
        BY <2>1
      <4> QED BY <1>3, <4>1
    <3>2. p \notin {"idle", "asking", "validating", "saving", "verifying", "applied"}
      BY <2>2
    <3>3. \A n \in DOMAIN a : n \in DOMAIN overrides' /\ overrides'[n] = a[n]
      <4>1. DOMAIN Over(a, persisted) = DOMAIN a \cup DOMAIN persisted
            /\ \A n \in DOMAIN a : Over(a, persisted)[n] = a[n]
        BY OverValue
      <4>2. overrides' = Over(a, persisted)
        BY <1>2
      <4> QED BY <4>1, <4>2
    <3> QED BY <1>2, <3>1, <3>2, <3>3 DEF Sound
  <2> QED BY <1>6, <2>2, <2>3
<1> QED BY <1>7, <1>8 DEF Save

LEMMA SoundRead == ASSUME SoundIInv, NEW c \in Clients, NEW k \in {"mqtt", "api", "rest"},
                          Read(c, k)
                   PROVE  SoundIInv'
<1>1. PICK a, t : a = answer[c] /\ t = savedAt[c]
  OBVIOUS
<1>2. Sound(c, "asking", a, t)
  BY <1>1, SoundOne DEF Read, Sound
<1>3. /\ pc' = [pc EXCEPT ![c] = "asking"] /\ kind' = [kind EXCEPT ![c] = k]
      /\ answer' = [answer EXCEPT ![c] = a] /\ savedAt' = [savedAt EXCEPT ![c] = t]
      /\ UNCHANGED <<store, memory>>
  BY <1>1, SoundOne DEF Read, Goto
<1> QED BY <1>2, <1>3, SoundThinking

LEMMA SoundDecide == ASSUME SoundIInv, NEW c \in Clients, Decide(c) PROVE SoundIInv'
<1>1. PICK a \in Answers(kind[c]) :
        /\ answer' = [answer EXCEPT ![c] = a]
        /\ Goto(c, IF kind[c] = "rest" THEN "saving" ELSE "validating")
  BY DEF Decide
<1>2. PICK p : p = IF kind[c] = "rest" THEN "saving" ELSE "validating"
  OBVIOUS
<1>3. "mode" \in DOMAIN a => a.mode \in {"disabled", "token"}
  <2>1. kind[c] \in {"mqtt", "api", "rest"}
    BY SoundOne
  <2>2. CASE kind[c] = "mqtt"
    BY <1>1, <2>2 DEF Answers
  <2>3. CASE kind[c] = "api"
    BY <1>1, <2>3 DEF Answers
  <2>4. CASE kind[c] = "rest"
    BY <1>1, <2>4 DEF Answers
  <2> QED BY <2>1, <2>2, <2>3, <2>4
<1>4. PICK t, k : t = savedAt[c] /\ k = kind[c]
  OBVIOUS
<1>5. t = 0 /\ version \in Nat \ {0} /\ p \in {"saving", "validating"}
  BY <1>2, <1>4, SoundOne DEF Decide, Sound, SoundIInv
<1>6. Sound(c, p, a, t)
  BY <1>3, <1>5 DEF Sound
<1>7. /\ pc' = [pc EXCEPT ![c] = p] /\ kind' = [kind EXCEPT ![c] = k]
      /\ savedAt' = [savedAt EXCEPT ![c] = t] /\ UNCHANGED <<store, memory>>
      /\ k \in {"mqtt", "api", "rest"}
  BY <1>1, <1>2, <1>4, SoundOne DEF Decide, Goto
<1> QED BY <1>1, <1>6, <1>7, SoundThinking

LEMMA SoundPassword == ASSUME SoundIInv, NEW c \in Clients, PutPassword(c) PROVE SoundIInv'
<1>1. PICK a, t : a = answer[c] /\ t = savedAt[c]
  OBVIOUS
<1>2. /\ pc' = [pc EXCEPT ![c] = "offering"] /\ kind' = [kind EXCEPT ![c] = kind[c]]
      /\ answer' = [answer EXCEPT ![c] = a] /\ savedAt' = [savedAt EXCEPT ![c] = t]
      /\ kind[c] \in {"mqtt", "api", "rest"}
  BY <1>1, SoundOne DEF PutPassword, Goto
<1>3. UNCHANGED <<overrides, version, token, memory>> /\ password' \in {c, Nobody}
  BY DEF PutPassword
<1>4. version' \in Nat \ {0} /\ Accepted'
  BY <1>3 DEF SoundIInv, memory, Accepted
<1>5. ASSUME NEW d \in Clients \ {c}, NEW q, NEW b, NEW u, Sound(d, q, b, u)
      PROVE  Sound(d, q, b, u)'
  <2>1. password' # d
    BY <1>3, NobodyAssumption
  <2> QED BY <1>3, <1>5, <2>1 DEF Sound, memory
<1>6. Sound(c, pc[c], a, t)
  BY <1>1, SoundOne
<1>7. Sound(c, "offering", a, t)'
  BY <1>3, <1>6 DEF Sound
<1> QED BY <1>2, <1>4, <1>5, <1>7, SoundDialogue

LEMMA SoundDialogues == ASSUME SoundIInv, NEW c \in Clients, Dialogue(c) PROVE SoundIInv'
<1>1. ASSUME Decline(c) \/ Refused(c) \/ RequestFails(c) \/ Later(c) \/ Leave(c) PROVE SoundIInv'
  BY <1>1, SoundEnds DEF Decline, Refused, RequestFails, Later, Leave
<1>2. ASSUME Validate(c) PROVE SoundIInv'
  <2>1. CASE Candidate(answer[c])
    <3>1. Sound(c, "saving", answer[c], savedAt[c])
      BY <1>2, SoundOne DEF Validate, Sound
    <3> QED BY <1>2, <2>1, <3>1, SoundGoes DEF Validate
  <2>2. CASE ~Candidate(answer[c])
    BY <1>2, <2>2, SoundEnds DEF Validate
  <2> QED BY <2>1, <2>2
<1>3. ASSUME KeepPassword(c) PROVE SoundIInv'
  <2>1. Sound(c, "offering", answer[c], savedAt[c])
    BY SoundOne DEF Sound
  <2> QED BY <1>3, <2>1, SoundGoes DEF KeepPassword
<1>4. ASSUME Verify(c) PROVE SoundIInv'
  <2>1. Sound(c, "applied", answer[c], savedAt[c])
    BY <1>4, SoundOne DEF Verify, Sound
  <2> QED BY <1>4, <2>1, SoundGoes DEF Verify
<1>5. ASSUME Interrupt(c) PROVE SoundIInv'
  <2>1. Sound(c, "cancelled", answer[c], savedAt[c])
    BY SoundOne DEF Sound
  <2> QED BY <1>5, <2>1, SoundGoes DEF Interrupt
<1>6. ASSUME Restart(c) \/ RestartNow(c) PROVE SoundIInv'
  BY <1>6, SoundRestart DEF Restart, RestartNow
<1> QED BY <1>1, <1>2, <1>3, <1>4, <1>5, <1>6, SoundSave, SoundRead, SoundDecide, SoundPassword
        DEF Dialogue

\* Steps of the process, of the host and of the token.
LEMMA SoundProcess ==
  ASSUME SoundIInv, UNCHANGED <<overrides, version, dialogues>>, Accepted',
         \A c, p, a, t : Sound(c, p, a, t) => Sound(c, p, a, t)'
  PROVE  SoundIInv'
<1>1. \A c \in Clients : Sound(c, pc[c], answer[c], savedAt[c])'
  <2>1. ASSUME NEW c \in Clients,
               NEW p, NEW a, NEW t, p = pc[c], a = answer[c], t = savedAt[c]
        PROVE  Sound(c, p, a, t)'
    BY <2>1 DEF SoundIInv
  <2>2. ASSUME NEW c \in Clients PROVE Sound(c, pc[c], answer[c], savedAt[c])'
    BY <2>1 DEF Sound, dialogues
  <2> QED BY <2>2
<1> QED BY <1>1 DEF SoundIInv, dialogues

LEMMA SoundStep == SoundIInv /\ [Next]_vars => SoundIInv'
<1> SUFFICES ASSUME SoundIInv, [Next]_vars PROVE SoundIInv'
  OBVIOUS
<1>1. CASE Start
  <2>1. /\ UNCHANGED <<host, overrides, version, password, dialogues>> /\ service' = "up"
        /\ started' = host /\ values' = Effective(host, overrides)
        /\ startup' = Effective(host, overrides)
        /\ token' = (token \/ Effective(host, overrides).mode = "token")
        /\ credential' = IF Effective(host, overrides).mqtt = "on" THEN password ELSE Nobody
        /\ Startable(host, overrides, token)
    BY <1>1 DEF Start, Booted, Publishes
  <2>2. Accepted'
    BY <2>1, EffectiveMode DEF Accepted, Startable, Loads
  <2>3. ASSUME NEW n \in DOMAIN overrides PROVE startup'[n] = overrides[n]
    BY <2>1, OverValue DEF Effective
  <2>4. ASSUME NEW c, NEW p, NEW a, NEW t, Sound(c, p, a, t) PROVE Sound(c, p, a, t)'
    BY <2>1, <2>3, <2>4 DEF Sound
  <2> QED BY <2>1, <2>2, <2>4, SoundProcess
<1>2. ASSUME StartFails \/ Crash PROVE SoundIInv'
  <2>1. UNCHANGED <<store, dialogues>> /\ service' # "up"
    BY <1>2 DEF StartFails, Crash, Gone
  <2>2. Accepted' /\ \A c, p, a, t : Sound(c, p, a, t) => Sound(c, p, a, t)'
    BY <2>1 DEF Accepted, Sound, store
  <2> QED BY <2>1, <2>2, SoundProcess DEF store
<1>3. ASSUME Bootstrap \/ Rotate PROVE SoundIInv'
  <2>1. UNCHANGED <<overrides, version, password, memory, dialogues>> /\ token'
    BY <1>3 DEF Bootstrap, Rotate
  <2>2. Accepted' /\ \A c, p, a, t : Sound(c, p, a, t) => Sound(c, p, a, t)'
    BY <2>1 DEF SoundIInv, Accepted, Sound, memory
  <2> QED BY <2>1, <2>2, SoundProcess
<1>4. ASSUME NEW h \in Hosts, Edit(h) PROVE SoundIInv'
  <2>1. UNCHANGED <<store, service, values, startup, credential, dialogues>>
        /\ (service = "up" => started' = started)
    BY <1>4 DEF Edit
  <2>2. Accepted' /\ \A c, p, a, t : Sound(c, p, a, t) => Sound(c, p, a, t)'
    BY <2>1 DEF SoundIInv, Accepted, Sound, store
  <2> QED BY <2>1, <2>2, SoundProcess DEF store
<1>5. ASSUME NEW c \in Clients, Dialogue(c) PROVE SoundIInv'
  BY <1>5, SoundDialogues
<1>6. CASE UNCHANGED vars
  <2>1. Accepted' /\ \A c, p, a, t : Sound(c, p, a, t) => Sound(c, p, a, t)'
    BY <1>6 DEF SoundIInv, Accepted, Sound, store, memory, vars
  <2> QED BY <1>6, <2>1, SoundProcess DEF vars, store
<1> QED BY <1>1, <1>2, <1>3, <1>4, <1>5, <1>6 DEF Next

\* Whatever is stored has been accepted, so that what is started from it can be started.
THEOREM SoundHolds == Spec => []SoundIInv
<1>1. ASSUME Init PROVE SoundIInv
  <2>1. /\ version = 1 /\ service = "down"
        /\ pc = [c \in Clients |-> "idle"] /\ kind = [c \in Clients |-> "rest"]
        /\ answer = [c \in Clients |-> <<>>] /\ savedAt = [c \in Clients |-> 0]
    BY <1>1 DEF Init
  <2>2. ASSUME NEW c PROVE Sound(c, "idle", <<>>, 0)
    BY <2>1, NoAnswer DEF Sound
  <2> QED BY <2>1, <2>2 DEF SoundIInv, Accepted
<1> QED BY <1>1, SoundStep, PTL DEF Spec

\* What was accepted can be started again, but for a managed service whose authentication was
\* switched off (StartsAgain: validate_patch and the checks of create_app).
THEOREM AcceptedStarts == Spec => []StartsAgain
<1>1. SoundIInv /\ MemoryIsStore => StartsAgain
  BY DEF SoundIInv, Accepted, MemoryIsStore, StartsAgain, Startable, Loads
<1> QED BY <1>1, SoundHolds, MemoryFollowsStore, PTL

\* A dialogue that reports success after a restart tells the truth (AppliedRuns: _offer_restart,
\* create_app).
THEOREM ReportsAreTrue == Spec => []AppliedRuns
<1>1. SoundIInv => AppliedRuns
  BY DEF SoundIInv, Sound, AppliedRuns
<1> QED BY <1>1, SoundHolds, PTL

(***************************************************************************)
(* Types                                                                   *)
(***************************************************************************)
\* The values of each setting.
Options == [n \in Names |-> IF n = "bind" THEN {"loopback", "all"}
                            ELSE IF n = "mode" THEN {"disabled", "token"} ELSE {"off", "on"}]

LEMMA ValuesAre ==
  \A v : v \in Values <=> v = [n \in Names |-> v[n]] /\ \A n \in Names : v[n] \in Options[n]
<1> TAKE v
<1>1. ASSUME v \in Values PROVE v = [n \in Names |-> v[n]] /\ \A n \in Names : v[n] \in Options[n]
  BY <1>1 DEF Values, Names, Options
<1>2. ASSUME v = [n \in Names |-> v[n]], \A n \in Names : v[n] \in Options[n] PROVE v \in Values
  BY <1>2 DEF Values, Names, Options
<1> QED BY <1>1, <1>2

LEMMA LayersAre ==
  \A l : l \in Layers <=>
    DOMAIN l \subseteq Names /\ l = [n \in DOMAIN l |-> l[n]] /\ \A n \in DOMAIN l : l[n] \in Options[n]
<1> TAKE l
<1>1. ASSUME l \in Layers
      PROVE DOMAIN l \subseteq Names /\ l = [n \in DOMAIN l |-> l[n]] /\ \A n \in DOMAIN l : l[n] \in Options[n]
  <2>1. PICK names \in SUBSET Names, v \in Values : l = Part(v, names)
    BY <1>1 DEF Layers
  <2>2. DOMAIN l = names /\ l = [n \in names |-> v[n]]
    BY <2>1 DEF Part
  <2>3. \A n \in names : l[n] = v[n]
    BY <2>2
  <2>4. \A n \in names : v[n] \in Options[n]
    BY ValuesAre
  <2> QED BY <2>1, <2>2, <2>3, <2>4
<1>2. ASSUME DOMAIN l \subseteq Names, l = [n \in DOMAIN l |-> l[n]], \A n \in DOMAIN l : l[n] \in Options[n]
      PROVE l \in Layers
  <2> DEFINE v == Over(l, Default)
  <2>1. Default \in Values
    BY DEF Default, Values
  <2>2. \A n \in Names : Default[n] \in Options[n]
    BY <2>1, ValuesAre
  <2>3. DOMAIN Default = Names
    BY <2>1, ValuesAre
  <2>4. v = [n \in Names |-> IF n \in DOMAIN l THEN l[n] ELSE Default[n]]
    BY <1>2, <2>3 DEF Over
  <2>5. \A n \in Names : v[n] = IF n \in DOMAIN l THEN l[n] ELSE Default[n]
    BY <2>4
  <2>6. v \in Values
    <3>1. \A n \in Names : v[n] \in Options[n]
      BY <2>5, <2>2, <1>2
    <3> HIDE DEF v
    <3>2. v = [n \in Names |-> v[n]]
      BY <2>4, <2>5
    <3> QED BY <3>1, <3>2, ValuesAre
  <2>7. Part(v, DOMAIN l) = [n \in DOMAIN l |-> l[n]]
    <3>1. \A n \in DOMAIN l : v[n] = l[n]
      BY <2>5, <1>2
    <3> HIDE DEF v
    <3> QED BY <3>1 DEF Part
  <2> HIDE DEF v
  <2> QED BY <1>2, <2>6, <2>7 DEF Layers
<1> QED BY <1>1, <1>2

LEMMA OverLayers == ASSUME NEW l \in Layers, NEW m \in Layers PROVE Over(l, m) \in Layers
<1>1. Over(l, m) = [n \in DOMAIN l \cup DOMAIN m |-> IF n \in DOMAIN l THEN l[n] ELSE m[n]]
  BY DEF Over
<1>2. /\ DOMAIN Over(l, m) = DOMAIN l \cup DOMAIN m
      /\ \A n \in DOMAIN Over(l, m) : Over(l, m)[n] = IF n \in DOMAIN l THEN l[n] ELSE m[n]
  BY <1>1
<1>3. Over(l, m) = [n \in DOMAIN Over(l, m) |-> Over(l, m)[n]]
  BY <1>1, <1>2
<1>4. \A n \in DOMAIN Over(l, m) : Over(l, m)[n] \in Options[n]
  BY <1>2, LayersAre
<1> QED BY <1>2, <1>3, <1>4, LayersAre

LEMMA OverValues == ASSUME NEW l \in Layers, NEW v \in Values PROVE Over(l, v) \in Values
<1>1. DOMAIN v = Names /\ DOMAIN l \subseteq Names
  BY ValuesAre, LayersAre
<1>2. Over(l, v) = [n \in Names |-> IF n \in DOMAIN l THEN l[n] ELSE v[n]]
  BY <1>1 DEF Over
<1>3. \A n \in Names : Over(l, v)[n] = IF n \in DOMAIN l THEN l[n] ELSE v[n]
  BY <1>2
<1>4. Over(l, v) = [n \in Names |-> Over(l, v)[n]]
  BY <1>2, <1>3
<1>5. \A n \in Names : Over(l, v)[n] \in Options[n]
  BY <1>3, LayersAre, ValuesAre
<1> QED BY <1>4, <1>5, ValuesAre

LEMMA DefaultValues == Default \in Values
BY DEF Default, Values

LEMMA NoLayer == <<>> \in Layers
<1>1. <<>> = [n \in {} |-> <<>>[n]]
  OBVIOUS
<1>2. DOMAIN <<>> = {}
  OBVIOUS
<1> QED BY <1>1, <1>2, LayersAre

\* What a dialogue asks for, if the manager knows it, is a layer.
LEMMA AnswersAre ==
  ASSUME NEW k \in {"mqtt", "api", "rest"}, NEW a \in Answers(k)
  PROVE  a \in Patches /\ (Familiar(a) => a \in Layers)
<1>1. a \in Patches
  BY DEF Patches
<1>2. /\ k = "mqtt" => a \in {[mqtt |-> "on"], [mqtt |-> "off"]}
      /\ k = "api" => a \in {[bind |-> b, mode |-> "token"] : b \in {"loopback", "all"}}
      /\ k = "rest" => a \in {[mode |-> "disabled"], [bind |-> "all"], [mode |-> "token"],
                             [other |-> "on"]}
  BY DEF Answers
<1>3. ASSUME a \in {[mqtt |-> "on"], [mqtt |-> "off"]} PROVE a \in Layers
  <2>1. DOMAIN a = {"mqtt"} /\ a["mqtt"] \in {"on", "off"} /\ a = [n \in {"mqtt"} |-> a[n]]
    BY <1>3
  <2> QED BY <2>1, LayersAre DEF Names, Options
<1>4. ASSUME a \in {[bind |-> b, mode |-> "token"] : b \in {"loopback", "all"}} PROVE a \in Layers
  <2>1. /\ DOMAIN a = {"bind", "mode"} /\ a["bind"] \in {"loopback", "all"} /\ a["mode"] = "token"
        /\ a = [n \in {"bind", "mode"} |-> a[n]]
    BY <1>4
  <2> QED BY <2>1, LayersAre DEF Names, Options
<1>5. ASSUME a \in {[mode |-> "disabled"], [mode |-> "token"]} PROVE a \in Layers
  <2>1. DOMAIN a = {"mode"} /\ a["mode"] \in {"disabled", "token"} /\ a = [n \in {"mode"} |-> a[n]]
    BY <1>5
  <2> QED BY <2>1, LayersAre DEF Names, Options
<1>6. ASSUME a = [bind |-> "all"] PROVE a \in Layers
  <2>1. DOMAIN a = {"bind"} /\ a["bind"] = "all" /\ a = [n \in {"bind"} |-> a[n]]
    BY <1>6
  <2> QED BY <2>1, LayersAre DEF Names, Options
<1>7. ASSUME a = [other |-> "on"] PROVE ~Familiar(a)
  <2>1. "other" \in DOMAIN a
    BY <1>7
  <2> QED BY <2>1 DEF Familiar, Names
<1> QED BY <1>1, <1>2, <1>3, <1>4, <1>5, <1>6, <1>7

LEMMA PatchesAre ==
  /\ <<>> \in Patches
  /\ \A a \in Patches : Familiar(a) => a \in Layers
<1> DEFINE asked == UNION {Answers(k) : k \in {"mqtt", "api", "rest"}}
<1>1. Patches = asked \cup {<<>>}
  BY DEF Patches
<1>2. ASSUME NEW a \in asked, Familiar(a) PROVE a \in Layers
  BY <1>2, AnswersAre
<1> HIDE DEF asked
<1> QED BY <1>1, <1>2, NoLayer

\* What starts has valid settings.
LEMMA LoadedValues ==
  ASSUME NEW h \in Hosts, NEW o \in Layers, Loads(h, o) PROVE Effective(h, o) \in Values
<1>1. h.yaml \in Layers /\ h.environment \in Layers
  BY HostsAssumption DEF Loads, Familiar
<1> QED BY <1>1, DefaultValues, OverValues DEF Effective

\* TypeOK in groups: files and store, process, dialogues.
StoreTypes ==
  /\ host \in Hosts /\ overrides \in Layers /\ version \in 0..MaxVersion
  /\ token \in BOOLEAN /\ password \in Clients \cup {Nobody}

ProcessTypes ==
  /\ started \in Hosts /\ persisted \in Layers /\ known \in 0..MaxVersion
  /\ credential \in Clients \cup {Nobody} /\ service \in {"down", "up", "failed"}
  /\ values \in Values /\ startup \in Values

DialogueTypes ==
  /\ pc \in [Clients -> Pcs]
  /\ kind \in [Clients -> {"mqtt", "api", "rest"}]
  /\ etag \in [Clients -> 0..MaxVersion]
  /\ answer \in [Clients -> Patches]
  /\ based \in [Clients -> Layers]
  /\ savedAt \in [Clients -> 0..MaxVersion]

LEMMA TypeGroups == TypeOK <=> StoreTypes /\ ProcessTypes /\ DialogueTypes
BY DEF TypeOK, StoreTypes, ProcessTypes, DialogueTypes

LEMMA SettingsTypesInit == Init => TypeOK
<1> SUFFICES ASSUME Init PROVE TypeOK
  OBVIOUS
<1>1. <<>> \in Patches
  BY PatchesAre
<1>2. 0 \in 0..MaxVersion /\ 1 \in 0..MaxVersion
  BY MaxVersionAssumption
<1>3. StoreTypes
  BY <1>2, NoLayer DEF Init, StoreTypes
<1>4. ProcessTypes
  BY <1>2, NoLayer, DefaultValues DEF Init, ProcessTypes
<1>5. DialogueTypes
  BY <1>1, <1>2, NoLayer DEF Init, DialogueTypes, Pcs
<1> QED BY <1>3, <1>4, <1>5, TypeGroups

LEMMA GoneTypes == ASSUME host \in Hosts, Gone PROVE ProcessTypes'
<1>1. 0 \in 0..MaxVersion
  BY MaxVersionAssumption
<1> QED BY <1>1, NoLayer, DefaultValues DEF Gone, ProcessTypes

LEMMA EndsTypes == ASSUME DialogueTypes, NEW c \in Clients, Ends(c) PROVE DialogueTypes'
<1>1. <<>> \in Patches /\ 0 \in 0..MaxVersion /\ "idle" \in Pcs
  BY MaxVersionAssumption, PatchesAre DEF Pcs
<1> QED BY <1>1, NoLayer DEF Ends, Goto, DialogueTypes

\* A dialogue that only goes on.
LEMMA GotoTypes ==
  ASSUME DialogueTypes, NEW c \in Clients, NEW p \in Pcs, Goto(c, p),
         UNCHANGED <<kind, etag, answer, based, savedAt>>
  PROVE  DialogueTypes'
BY DEF Goto, DialogueTypes

LEMMA SameStore == ASSUME StoreTypes, UNCHANGED <<host, store>> PROVE StoreTypes'
BY DEF StoreTypes, store

LEMMA SameProcess == ASSUME ProcessTypes, UNCHANGED memory PROVE ProcessTypes'
BY DEF ProcessTypes, memory

LEMMA SameDialogues == ASSUME DialogueTypes, UNCHANGED dialogues PROVE DialogueTypes'
BY DEF DialogueTypes, dialogues

LEMMA SaveTypes ==
  ASSUME StoreTypes, ProcessTypes, DialogueTypes, NEW c \in Clients, Save(c)
  PROVE  StoreTypes' /\ ProcessTypes' /\ DialogueTypes'
<1>1. answer[c] \in Layers
  BY PatchesAre DEF DialogueTypes, Save, Acceptable, Candidate
<1>2. version' \in 0..MaxVersion
  BY MaxVersionAssumption DEF StoreTypes, Save, Replaced
<1>3. StoreTypes'
  BY <1>1, <1>2, OverLayers DEF StoreTypes, ProcessTypes, Save, Replaced
<1>4. ProcessTypes'
  BY <1>1, <1>2, OverLayers, OverValues DEF ProcessTypes, Save, Follow
<1>5. DialogueTypes'
  <2>1. CASE Ends(c)
    BY <2>1, EndsTypes
  <2>2. CASE Proceeds(c)
    BY <1>2, <2>2 DEF Proceeds, Goto, DialogueTypes, Pcs
  <2> QED BY <2>1, <2>2 DEF Save
<1> QED BY <1>3, <1>4, <1>5

LEMMA DialogueTypeStep ==
  ASSUME StoreTypes, ProcessTypes, DialogueTypes, NEW c \in Clients, Dialogue(c)
  PROVE  StoreTypes' /\ ProcessTypes' /\ DialogueTypes'
<1>1. CASE \E k \in {"mqtt", "api", "rest"} : Read(c, k)
  <2> PICK k \in {"mqtt", "api", "rest"} : Read(c, k)
    BY <1>1
  <2>1. DialogueTypes'
    BY DEF Read, Goto, DialogueTypes, ProcessTypes, Pcs
  <2> QED BY <2>1, SameStore, SameProcess DEF Read
<1>2. CASE Decide(c)
  <2>1. PICK a \in Answers(kind[c]) :
          answer' = [answer EXCEPT ![c] = a] /\ Goto(c, IF kind[c] = "rest" THEN "saving" ELSE "validating")
    BY <1>2 DEF Decide
  <2>2. a \in Patches
    BY <2>1, AnswersAre DEF DialogueTypes
  <2>3. DialogueTypes'
    BY <1>2, <2>1, <2>2 DEF Decide, Goto, DialogueTypes, Pcs
  <2> QED BY <1>2, <2>3, SameStore, SameProcess DEF Decide
<1>3. CASE Decline(c) \/ Refused(c) \/ RequestFails(c) \/ Later(c) \/ Leave(c)
  <2>1. Ends(c) /\ UNCHANGED <<host, store, memory>>
    BY <1>3 DEF Decline, Refused, RequestFails, Later, Leave
  <2> QED BY <2>1, EndsTypes, SameStore, SameProcess
<1>4. CASE Validate(c)
  <2>1. DialogueTypes'
    BY <1>4, EndsTypes, GotoTypes DEF Validate, Pcs
  <2> QED BY <1>4, <2>1, SameStore, SameProcess DEF Validate
<1>5. CASE Save(c)
  BY <1>5, SaveTypes
<1>6. CASE PutPassword(c)
  <2>1. DialogueTypes'
    BY <1>6, GotoTypes DEF PutPassword, Pcs
  <2>2. StoreTypes'
    BY <1>6 DEF PutPassword, StoreTypes
  <2> QED BY <1>6, <2>1, <2>2, SameProcess DEF PutPassword
<1>7. CASE KeepPassword(c) \/ Verify(c) \/ Interrupt(c)
  <2>1. DialogueTypes'
    BY <1>7, GotoTypes DEF KeepPassword, Verify, Interrupt, Pcs
  <2> QED BY <1>7, <2>1, SameStore, SameProcess DEF KeepPassword, Verify, Interrupt
<1>8. CASE Restart(c) \/ RestartNow(c)
  <2>1. Gone /\ Goto(c, "verifying") /\ UNCHANGED <<host, store, kind, etag, answer, based, savedAt>>
    BY <1>8 DEF Restart, RestartNow
  <2>2. DialogueTypes'
    BY <2>1, GotoTypes DEF Pcs
  <2> QED BY <2>1, <2>2, SameStore, GoneTypes DEF StoreTypes
<1> QED BY <1>1, <1>2, <1>3, <1>4, <1>5, <1>6, <1>7, <1>8 DEF Dialogue

LEMMA ProcessTypeStep ==
  ASSUME StoreTypes, ProcessTypes, DialogueTypes,
         Start \/ StartFails \/ Crash \/ Bootstrap \/ Rotate \/ \E h \in Hosts : Edit(h)
  PROVE  StoreTypes' /\ ProcessTypes' /\ DialogueTypes'
<1>1. DialogueTypes'
  BY SameDialogues DEF Start, StartFails, Crash, Bootstrap, Rotate, Edit
<1>2. CASE Start
  <2>1. Effective(host, overrides) \in Values
    BY <1>2, LoadedValues DEF Start, Startable, StoreTypes
  <2>2. StoreTypes'
    BY <1>2 DEF Start, Booted, StoreTypes
  <2>3. ProcessTypes'
    BY <1>2, <2>1 DEF Start, Booted, Publishes, StoreTypes, ProcessTypes
  <2> QED BY <1>1, <2>2, <2>3
<1>3. CASE StartFails
  <2>1. ProcessTypes'
    BY <1>3 DEF StartFails, ProcessTypes
  <2> QED BY <1>1, <1>3, <2>1, SameStore DEF StartFails
<1>4. CASE Crash
  BY <1>1, <1>4, GoneTypes, SameStore DEF Crash, StoreTypes
<1>5. CASE Bootstrap \/ Rotate
  <2>1. StoreTypes'
    BY <1>5 DEF Bootstrap, Rotate, StoreTypes
  <2> QED BY <1>1, <1>5, <2>1, SameProcess DEF Bootstrap, Rotate
<1>6. CASE \E h \in Hosts : Edit(h)
  <2>1. StoreTypes' /\ ProcessTypes'
    BY <1>6 DEF Edit, StoreTypes, ProcessTypes, store
  <2> QED BY <1>1, <2>1
<1> QED BY <1>2, <1>3, <1>4, <1>5, <1>6

\* Whatever the dialogues, the operator and the process do, every variable keeps its type: what
\* is stored and what the process runs with are settings the manager knows, with values of theirs
\* (configuration.py, the models).
THEOREM SettingsTypeCorrect == Spec => []TypeOK
<1>1. TypeOK /\ [Next]_vars => TypeOK'
  <2> SUFFICES ASSUME TypeOK, [Next]_vars PROVE TypeOK'
    OBVIOUS
  <2>0. StoreTypes /\ ProcessTypes /\ DialogueTypes
    BY TypeGroups
  <2>1. StoreTypes' /\ ProcessTypes' /\ DialogueTypes' => TypeOK'
    BY DEF TypeOK, StoreTypes, ProcessTypes, DialogueTypes
  <2>2. CASE \E c \in Clients : Dialogue(c)
    BY <2>0, <2>1, <2>2, DialogueTypeStep
  <2>3. CASE Start \/ StartFails \/ Crash \/ Bootstrap \/ Rotate \/ \E h \in Hosts : Edit(h)
    BY <2>0, <2>1, <2>3, ProcessTypeStep
  <2>4. CASE UNCHANGED vars
    BY <2>0, <2>1, <2>4, SameStore, SameProcess, SameDialogues DEF vars
  <2> QED BY <2>2, <2>3, <2>4 DEF Next
<1> QED BY <1>1, SettingsTypesInit, PTL DEF Spec
==============================================================================
