------------------------ MODULE NeqsimServiceProofs ------------------------
(***************************************************************************)
(* Theorems about NeqsimService, for every number of clients, every set of *)
(* requests, every cache size and every nesting of contexts.               *)
(***************************************************************************)
EXTENDS NeqsimService, SequenceTheorems, FiniteSetTheorems, TLAPS

(***************************************************************************)
(* Caches.  What is in a cache is said by a set S of entries.               *)
(***************************************************************************)
\* The entry of a key that is there has that key.
LEMMA EntryOfKey ==
  ASSUME NEW S, NEW cache \in Seq(S), NEW key \in Keys(cache)
  PROVE  /\ Position(cache, key) \in 1 .. Len(cache)
         /\ Entry(cache, key) \in S
         /\ Entry(cache, key).key = key
<1>1. \E i \in DOMAIN cache : cache[i].key = key
  BY DEF Keys
<1>2. /\ Position(cache, key) \in DOMAIN cache
      /\ cache[Position(cache, key)].key = key
  BY <1>1 DEF Position
<1> QED
  BY <1>2 DEF Entry

\* Removing a key leaves entries of the cache.
LEMMA WithoutKeeps ==
  ASSUME NEW S, NEW cache \in Seq(S), NEW key
  PROVE  Without(cache, key) \in Seq(S)
<1>1. CASE key \in Keys(cache)
  <2>1. Position(cache, key) \in 1 .. Len(cache)
    BY <1>1, EntryOfKey
  <2> DEFINE i == Position(cache, key)
  <2>2. SubSeq(cache, 1, i - 1) \in Seq(S) /\ SubSeq(cache, i + 1, Len(cache)) \in Seq(S)
    <3> HIDE DEF i
    <3> QED
      BY <2>1, SubSeqProperties DEF i
  <2>3. RemoveAt(cache, i) \in Seq(S)
    BY <2>2, ConcatProperties DEF RemoveAt
  <2> QED
    BY <1>1, <2>3 DEF Without
<1>2. CASE key \notin Keys(cache)
  BY <1>2 DEF Without
<1> QED
  BY <1>1, <1>2

LEMMA TouchedKeeps ==
  ASSUME NEW S, NEW cache \in Seq(S), NEW key \in Keys(cache)
  PROVE  Touched(cache, key) \in Seq(S)
BY WithoutKeeps, EntryOfKey, AppendProperties DEF Touched

\* What is put in a cache is in it or evicted, the rest was there.
LEMMA PutKeeps ==
  ASSUME NEW S, NEW cache \in Seq(S), NEW entry \in S, NEW size \in Nat
  PROVE  Put(cache, entry, size) \in Seq(S)
<1> DEFINE added == Append(Without(cache, entry.key), entry)
<1>1. added \in Seq(S) /\ added # <<>>
  BY WithoutKeeps, AppendProperties
<1>2. Tail(added) \in Seq(S)
  BY <1>1, HeadTailProperties
<1> QED
  BY <1>1, <1>2 DEF Put

(***************************************************************************)
(* The invariant.                                                          *)
(***************************************************************************)
Models     == {q.model : q \in Requests}
Services   == [kind : {PY4J, JPYPE}, gateway : BOOLEAN, alive : BOOLEAN]
References == [key : Models, service : Nat \cup {NONE}]
Flashes    == [key : {FlashKey(q) : q \in Requests}, answer : Requests]

Before    == {"flash cache", "reference"}
Answered  == {"density", "density created", "extract"}
Referring == Answered \cup {"created", "flash"}

ClientStates ==
  [pc : {"idle"} \cup Before \cup Referring, request : Requests \cup {NONE},
   ref : Nat \cup {NONE}, answer : Requests \cup {NONE}]

\* The service in use is up, a client is idle between its requests, and has an
\* answer once it has flashed.
TypeInv ==
  /\ services \in Seq(Services)
  /\ service \in DOMAIN services \cup {NONE}
  /\ service # NONE => Usable
  /\ closing \in BOOLEAN /\ raced \in BOOLEAN
  /\ ReferenceSize \in Nat /\ FlashSize \in Nat
  /\ references \in Seq(References)
  /\ flashes \in Seq(Flashes)
  /\ client \in [Clients -> ClientStates]
  /\ \A c \in Clients : client[c].request = NONE <=> client[c].pc = "idle"
  /\ \A c \in Clients : client[c].pc \in Answered => client[c].answer \in Requests

Current    == {service} \ {NONE}
Kept(q)    == [key |-> FlashKey(q), answer |-> q]

\* While no request has run during the last shutdown: what is cached, and what a
\* client holds to cache it later, is of the current service; what a flash gave,
\* cached or held, is what was asked; and a shutdown finds everyone at rest.
Undisturbed ==
  ~raced =>
    /\ references \in Seq([key : Models, service : Current])
    /\ flashes \in Seq({Kept(q) : q \in Requests \ Unsolvable})
    /\ \A c \in Clients : client[c].pc \in Referring => client[c].ref = service /\ service # NONE
    /\ \A c \in Clients : client[c].pc \in Answered => client[c].answer = client[c].request
    /\ closing => references = <<>> /\ \A c \in Clients : ~Busy(c)

IInv == TypeInv /\ Undisturbed

LEMMA InitInv == Init => IInv
<1> SUFFICES ASSUME Init PROVE IInv
  OBVIOUS
<1>1. ReferenceSize \in Nat /\ FlashSize \in Nat
  BY SizesAssumption DEF Init, ReferenceSize, FlashSize, CacheSize
<1>2. \A S : <<>> \in Seq(S)
  BY EmptySeq
<1>3. client \in [Clients -> ClientStates]
  BY DEF Init, Idle, ClientStates
<1>4. \A c \in Clients : client[c].pc = "idle" /\ client[c].request = NONE
  BY DEF Init, Idle
<1>5. services = <<>> /\ references = <<>> /\ flashes = <<>> /\ service = NONE /\ closing = FALSE /\ raced = FALSE
  BY DEF Init
<1>6. TypeInv
  BY <1>1, <1>2, <1>3, <1>4, <1>5 DEF TypeInv, Answered
<1>7. Undisturbed
  BY <1>2, <1>4, <1>5 DEF Undisturbed, Answered, Referring, Busy
<1> QED
  BY <1>6, <1>7 DEF IInv

\* A service of which the gateway is taken or the JVM is gone is one still.
LEMMA ServiceKeeps ==
  ASSUME NEW s \in Services, NEW b \in BOOLEAN
  PROVE  [s EXCEPT !.gateway = b] \in Services /\ [s EXCEPT !.alive = b] \in Services
  BY Zenon DEF Services

LEMMA EnterInv ==
  ASSUME IInv, NEW kind \in {PY4J, JPYPE}, Enter(kind)
  PROVE  IInv'
<1> USE DEF Enter
<1>1. /\ services' \in Seq(Services)
      /\ service' \in DOMAIN services' /\ service' # NONE
      /\ Usable'
      /\ service # NONE => service' = service
  <2>1. CASE service = NONE
    <3> DEFINE new == [kind |-> kind, gateway |-> TRUE, alive |-> TRUE]
    <3>1. new \in Services /\ services \in Seq(Services) /\ services' = Append(services, new)
      BY <2>1 DEF IInv, TypeInv, Services
    <3>2. /\ services' \in Seq(Services) /\ Len(services') = Len(services) + 1
          /\ services'[Len(services) + 1] = new
      <4> HIDE DEF new, Enter
      <4> QED
        BY <3>1, AppendProperties
    <3>3. service' = Len(services) + 1 /\ Len(services) \in Nat
      BY <2>1, <3>2, <3>1, LenProperties
    <3> QED
      BY <2>1, <3>2, <3>3, NoneAssumption DEF Usable
  <2>2. CASE service # NONE
    BY <2>2 DEF IInv, TypeInv, Usable
  <2> QED
    BY <2>1, <2>2
<1>2. ~raced /\ service = NONE => references = <<>> /\ \A c \in Clients : client[c].pc \notin Referring
  BY DEF IInv, Undisturbed, Current
<1>3. TypeInv'
  BY <1>1 DEF IInv, TypeInv, ReferenceSize, FlashSize
<1>4. Undisturbed'
  BY <1>1, <1>2, EmptySeq DEF IInv, Undisturbed, Current, Busy
<1> QED
  BY <1>3, <1>4 DEF IInv

LEMMA ExitInv == IInv /\ Exit => IInv'
<1> SUFFICES ASSUME IInv, Exit PROVE IInv'
  OBVIOUS
<1>1. UNCHANGED <<service, services, shutdownOnExit, requested, client, reply>>
  BY DEF Exit
<1>2. CASE ClearAll /\ closing' = TRUE
  BY <1>1, <1>2, EmptySeq DEF IInv, TypeInv, Undisturbed, ClearAll, Usable, ReferenceSize, FlashSize, Busy, Answered, Referring
<1>3. CASE UNCHANGED <<references, flashes, recent, raced, closing>>
  BY <1>1, <1>3 DEF IInv, TypeInv, Undisturbed, Usable, ReferenceSize, FlashSize, Busy, Current
<1> QED
  BY <1>2, <1>3 DEF Exit

LEMMA CloseInv == IInv /\ Close => IInv'
<1> SUFFICES ASSUME IInv, Close PROVE IInv'
  OBVIOUS
<1>1. closing /\ service' = NONE /\ closing' = FALSE
      /\ UNCHANGED <<requested, references, flashes, client, raced>>
  BY DEF Close
<1>2. services' \in Seq(Services)
  <2>1. CASE service # NONE /\ services[service].kind = PY4J
    <3>1. PICK raises \in BOOLEAN, survives \in BOOLEAN :
            services' = [services EXCEPT ![service].gateway = raises, ![service].alive = survives]
      BY <2>1 DEF Close
    <3>2. services \in Seq(Services) /\ service \in 1 .. Len(services)
      BY <2>1 DEF IInv, TypeInv
    <3> DEFINE lost == [services EXCEPT ![service].gateway = raises]
    <3>3. lost \in Seq(Services) /\ Len(lost) = Len(services)
      <4>1. [services[service] EXCEPT !.gateway = raises] \in Services
        <5>1. services[service] \in Services
          BY <3>2
        <5> QED
          BY <5>1, ServiceKeeps, Zenon
      <4>2. lost = [services EXCEPT ![service] = [services[service] EXCEPT !.gateway = raises]]
        OBVIOUS
      <4> QED
        BY <3>2, <4>1, <4>2, ExceptSeq
    <3>4. services' = [lost EXCEPT ![service] = [lost[service] EXCEPT !.alive = survives]]
      BY <3>1
    <3>5. [lost[service] EXCEPT !.alive = survives] \in Services
      <4> HIDE DEF lost
      <4> QED
        <5>1. lost[service] \in Services
          BY <3>2, <3>3
        <5> QED
          BY <5>1, ServiceKeeps, Zenon
    <3> QED
      <4> HIDE DEF lost
      <4> QED
        BY <3>2, <3>3, <3>4, <3>5, ExceptSeq
  <2>2. CASE ~(service # NONE /\ services[service].kind = PY4J)
    BY <2>2 DEF Close, IInv, TypeInv
  <2> QED
    BY <2>1, <2>2
<1>3. TypeInv'
  BY <1>1, <1>2 DEF IInv, TypeInv, ReferenceSize, FlashSize
<1>4. ~raced => references = <<>> /\ \A c \in Clients : client[c].pc = "idle"
  BY <1>1 DEF IInv, Undisturbed, Busy
<1>5. Undisturbed'
  BY <1>1, <1>4, EmptySeq DEF IInv, Undisturbed, Answered, Referring
<1> QED
  BY <1>3, <1>5 DEF IInv

\* A client of which one field is replaced.
LEMMA StateExcept ==
  ASSUME NEW s \in ClientStates
  PROVE  /\ \A v \in {"idle"} \cup Before \cup Referring :
              LET t == [s EXCEPT !.pc = v]
              IN  t \in ClientStates /\ t.pc = v /\ t.request = s.request /\ t.ref = s.ref /\ t.answer = s.answer
         /\ \A v \in Requests \cup {NONE} :
              LET t == [s EXCEPT !.request = v]
              IN  t \in ClientStates /\ t.pc = s.pc /\ t.request = v /\ t.ref = s.ref /\ t.answer = s.answer
         /\ \A v \in Nat \cup {NONE} :
              LET t == [s EXCEPT !.ref = v]
              IN  t \in ClientStates /\ t.pc = s.pc /\ t.request = s.request /\ t.ref = v /\ t.answer = s.answer
         /\ \A v \in Requests \cup {NONE} :
              LET t == [s EXCEPT !.answer = v]
              IN  t \in ClientStates /\ t.pc = s.pc /\ t.request = s.request /\ t.ref = s.ref /\ t.answer = v
  BY Zenon DEF ClientStates

LEMMA IdleState == Idle \in ClientStates /\ Idle.pc = "idle" /\ Idle.request = NONE
  BY DEF Idle, ClientStates

\* A request is made: one made while the service is being shut down disturbs it.
LEMMA AskInv ==
  ASSUME IInv, NEW c \in Clients, Ask(c)
  PROVE  IInv'
<1>1. PICK q \in Requests : client' = [client EXCEPT ![c] = [Idle EXCEPT !.pc = "flash cache", !.request = q]]
  BY DEF Ask
<1>2. /\ raced' = (raced \/ closing)
      /\ UNCHANGED <<service, services, closing, requested, references, flashes>>
  BY DEF Ask
<1>3. /\ client' \in [Clients -> ClientStates]
      /\ client'[c].pc = "flash cache" /\ client'[c].request = q
      /\ \A e \in Clients \ {c} : client'[e] = client[e]
  <2> DEFINE waiting == [Idle EXCEPT !.pc = "flash cache"]
             asking == [waiting EXCEPT !.request = q]
  <2>1. waiting \in ClientStates /\ waiting.pc = "flash cache"
    BY StateExcept, IdleState DEF Before
  <2>2. asking \in ClientStates /\ asking.pc = "flash cache" /\ asking.request = q
    <3> HIDE DEF waiting
    <3> QED
      BY <2>1, StateExcept
  <2>3. client' = [client EXCEPT ![c] = asking]
    BY <1>1
  <2> QED
    <3> HIDE DEF asking
    <3> QED
      BY <2>2, <2>3 DEF IInv, TypeInv
<1>4. TypeInv'
  BY <1>2, <1>3, NoneAssumption DEF IInv, TypeInv, Usable, ReferenceSize, FlashSize, Answered
<1>5. ~raced' => ~raced /\ ~closing
  BY <1>2 DEF IInv, TypeInv
<1>6. Undisturbed'
  BY <1>2, <1>3, <1>5 DEF IInv, Undisturbed, Current, Answered, Referring
<1> QED
  BY <1>4, <1>6 DEF IInv

\* What a step of a request has to keep: client c goes on as d.
LEMMA RequestKeeps ==
  ASSUME IInv, UNCHANGED jvmVars, NEW c \in Clients, Busy(c),
         NEW d, client' = [client EXCEPT ![c] = d],
         d \in ClientStates,
         d.request = NONE <=> d.pc = "idle",
         d.pc \in Answered => d.answer \in Requests,
         references' \in Seq(References), flashes' \in Seq(Flashes),
         ~raced => /\ references' \in Seq([key : Models, service : Current])
                   /\ flashes' \in Seq({Kept(q) : q \in Requests \ Unsolvable})
                   /\ d.pc \in Referring => d.ref = service /\ service # NONE
                   /\ d.pc \in Answered => d.answer = d.request
  PROVE  IInv'
<1>1. UNCHANGED <<service, services, closing, raced, requested>>
  BY DEF jvmVars
<1>2. client' \in [Clients -> ClientStates] /\ client'[c] = d /\ \A e \in Clients \ {c} : client'[e] = client[e]
  BY DEF IInv, TypeInv
<1>3. TypeInv'
  BY <1>1, <1>2 DEF IInv, TypeInv, Usable, ReferenceSize, FlashSize
<1>4. ~raced => ~closing
  BY DEF IInv, Undisturbed, Busy
<1>5. Undisturbed'
  BY <1>1, <1>2, <1>4 DEF IInv, Undisturbed, Current
<1> QED
  BY <1>3, <1>5 DEF IInv

\* A request that is answered leaves its client idle.
LEMMA ReturnKeeps ==
  ASSUME IInv, UNCHANGED jvmVars, NEW c \in Clients, Busy(c), NEW r, Return(c, r),
         references' \in Seq(References), flashes' \in Seq(Flashes),
         ~raced => /\ references' \in Seq([key : Models, service : Current])
                   /\ flashes' \in Seq({Kept(q) : q \in Requests \ Unsolvable})
  PROVE  IInv'
<1>1. client' = [client EXCEPT ![c] = Idle]
  BY DEF Return
<1>2. Idle \in ClientStates /\ Idle.pc = "idle" /\ Idle.request = NONE
  BY IdleState
<1>3. Idle.pc \notin Answered /\ Idle.pc \notin Referring
  BY <1>2 DEF Answered, Referring
<1> QED
  BY <1>1, <1>2, <1>3, RequestKeeps

\* A request that goes on, with the client's other fields as they were.
LEMMA GotoKeeps ==
  ASSUME IInv, UNCHANGED jvmVars, NEW c \in Clients, Busy(c), NEW pc \in Before \cup Referring, Goto(c, pc),
         pc \in Referring => client[c].pc \in Referring,
         pc \in Answered => client[c].pc \in Answered,
         references' \in Seq(References), flashes' \in Seq(Flashes),
         ~raced => /\ references' \in Seq([key : Models, service : Current])
                   /\ flashes' \in Seq({Kept(q) : q \in Requests \ Unsolvable})
  PROVE  IInv'
<1> DEFINE d == [client[c] EXCEPT !.pc = pc]
<1>1. client' = [client EXCEPT ![c] = d]
  BY DEF Goto
<1>2. client[c] \in ClientStates /\ client[c].request # NONE
  BY DEF IInv, TypeInv, Busy
<1>3. d \in ClientStates /\ d.pc = pc /\ d.request = client[c].request /\ d.ref = client[c].ref
      /\ d.answer = client[c].answer
  BY <1>2, StateExcept
<1>4. pc # "idle"
  BY DEF Before, Referring, Answered
<1> QED
  <2> HIDE DEF d
  <2>1. d.pc \in Answered => d.answer \in Requests
    BY <1>3 DEF IInv, TypeInv
  <2>2. ~raced => /\ d.pc \in Referring => d.ref = service /\ service # NONE
                  /\ d.pc \in Answered => d.answer = d.request
    BY <1>3 DEF IInv, Undisturbed
  <2>3. d.request = NONE <=> d.pc = "idle"
    BY <1>2, <1>3, <1>4
  <2> QED
    BY <1>1, <1>3, <2>1, <2>2, <2>3, RequestKeeps

\* What is kept of the caches where a step leaves them alone.
LEMMA CachesTyped ==
  ASSUME IInv
  PROVE  /\ references \in Seq(References) /\ flashes \in Seq(Flashes)
         /\ ~raced => /\ references \in Seq([key : Models, service : Current])
                      /\ flashes \in Seq({Kept(q) : q \in Requests \ Unsolvable})
  BY DEF IInv, TypeInv, Undisturbed

LEMMA LookUpFlashInv ==
  ASSUME IInv, NEW c \in Clients, LookUpFlash(c)
  PROVE  IInv'
<1> DEFINE key == FlashKey(client[c].request)
<1>1. client[c].pc = "flash cache" /\ UNCHANGED references /\ UNCHANGED jvmVars
  BY DEF LookUpFlash
<1>2. Busy(c)
  BY <1>1 DEF Busy
<1>3. UNCHANGED raced /\ UNCHANGED service
  BY <1>1 DEF jvmVars
<1>4. CASE key \in Keys(flashes)
  <2>1. Return(c, Entry(flashes, key).answer) /\ flashes' = Touched(flashes, key)
    BY <1>4 DEF LookUpFlash
  <2> HIDE DEF key
  <2>2. \A S : flashes \in Seq(S) => flashes' \in Seq(S)
    BY <1>4, <2>1, TouchedKeeps
  <2> QED
    BY <1>1, <1>2, <2>1, <2>2, CachesTyped, ReturnKeeps
<1>5. CASE key \notin Keys(flashes)
  <2>1. Goto(c, "reference") /\ UNCHANGED flashes
    BY <1>5 DEF LookUpFlash
  <2> QED
    BY <1>1, <1>2, <2>1, CachesTyped, GotoKeeps DEF Before, Referring, Answered
<1> QED
  BY <1>4, <1>5

\* Both stages at which a reference is looked for, and where each leads.
LEMMA Stages ==
  /\ DOMAIN ReferenceStages = {"reference", "density"}
  /\ ReferenceStages["reference"] = "created" /\ ReferenceStages["density"] = "density created"
  BY DEF ReferenceStages

AfterReference(pc) == IF pc = "reference" THEN "flash" ELSE "extract"

\* A client that got a reference goes on with it.
LEMMA ReferenceKeeps ==
  ASSUME IInv, UNCHANGED jvmVars, UNCHANGED flashes, NEW c \in Clients,
         NEW pc \in {"reference", "density"}, client[c].pc = pc,
         NEW ref \in Nat \cup {NONE}, NEW to \in {AfterReference(pc), ReferenceStages[pc]},
         client' = [client EXCEPT ![c].ref = ref, ![c].pc = to],
         references' \in Seq(References),
         ~raced => /\ references' \in Seq([key : Models, service : Current])
                   /\ ref = service /\ service # NONE
  PROVE  IInv'
<1> DEFINE s == [client[c] EXCEPT !.ref = ref]
           d == [s EXCEPT !.pc = to]
<1>1. client[c] \in ClientStates /\ client[c].request # NONE
  BY DEF IInv, TypeInv
<1>2. /\ to \in Referring
      /\ to \in Answered => client[c].pc \in Answered
      /\ to # "idle"
  BY Stages DEF AfterReference, Referring, Answered
<1>3. s \in ClientStates /\ s.request = client[c].request /\ s.ref = ref /\ s.answer = client[c].answer
  BY <1>1, StateExcept
<1>4. d \in ClientStates /\ d.pc = to /\ d.request = client[c].request /\ d.ref = ref
      /\ d.answer = client[c].answer
  <2> HIDE DEF s
  <2> QED
    BY <1>2, <1>3, StateExcept
<1>5. client' = [client EXCEPT ![c] = d]
  BY <1>1 DEF IInv, TypeInv
<1> HIDE DEF d
<1>6. d.pc \in Answered => d.answer \in Requests
  BY <1>2, <1>4 DEF IInv, TypeInv
<1>7. ~raced => /\ d.pc \in Referring => d.ref = service /\ service # NONE
                /\ d.pc \in Answered => d.answer = d.request
  BY <1>2, <1>4 DEF IInv, Undisturbed
<1>8. Busy(c)
  BY DEF Busy
<1>9. /\ flashes' \in Seq(Flashes)
      /\ ~raced => flashes' \in Seq({Kept(q) : q \in Requests \ Unsolvable})
  BY CachesTyped
<1>10. d.request = NONE <=> d.pc = "idle"
  BY <1>1, <1>2, <1>4
<1> QED
  BY <1>4, <1>5, <1>6, <1>7, <1>8, <1>9, <1>10, RequestKeeps

LEMMA LookUpReferenceInv ==
  ASSUME IInv, NEW c \in Clients, NEW pc \in DOMAIN ReferenceStages, LookUpReference(c, pc)
  PROVE  IInv'
<1> DEFINE key == client[c].request.model
<1>1. client[c].pc = pc /\ UNCHANGED flashes /\ UNCHANGED jvmVars /\ pc \in {"reference", "density"}
  BY Stages DEF LookUpReference
<1>2. Busy(c)
  BY <1>1 DEF Busy
<1>3. UNCHANGED raced
  BY <1>1 DEF jvmVars
<1>4. CASE key \in Keys(references)
  <2> DEFINE found == Entry(references, key)
  <2>1. /\ references' = Touched(references, key)
        /\ client' = [client EXCEPT ![c].ref = found.service, ![c].pc = AfterReference(pc)]
    BY <1>4 DEF LookUpReference, AfterReference
  <2>2. \A S : references \in Seq(S) => references' \in Seq(S) /\ found \in S
    <3> HIDE DEF key
    <3> QED
      BY <1>4, <2>1, TouchedKeeps, EntryOfKey
  <2> HIDE DEF found, key
  <2>3. references' \in Seq(References) /\ found.service \in Nat \cup {NONE}
    <3>1. references' \in Seq(References) /\ found \in References
      BY <2>2, CachesTyped
    <3> QED
      BY <3>1 DEF References
  <2>4. ASSUME ~raced
        PROVE  references' \in Seq([key : Models, service : Current]) /\ found.service = service /\ service # NONE
    <3>1. references' \in Seq([key : Models, service : Current]) /\ found \in [key : Models, service : Current]
      BY <2>2, <2>4, CachesTyped
    <3> QED
      BY <3>1 DEF Current
  <2> QED
    BY <1>1, <2>1, <2>3, <2>4, ReferenceKeeps
<1>5. CASE key \notin Keys(references) /\ Usable
  <2>1. UNCHANGED references
    BY <1>5 DEF LookUpReference
  <2>2. client' = [client EXCEPT ![c].ref = service, ![c].pc = ReferenceStages[pc]]
    BY <1>5 DEF LookUpReference
  <2>3. service \in Nat /\ service # NONE
    BY <1>5 DEF Usable, IInv, TypeInv
  <2> QED
    BY <1>1, <1>3, <2>1, <2>2, <2>3, CachesTyped, ReferenceKeeps
<1>6. CASE key \notin Keys(references) /\ ~Usable
  <2>1. Return(c, ERROR) /\ UNCHANGED references
    BY <1>6 DEF LookUpReference
  <2> QED
    BY <1>1, <1>2, <1>3, <2>1, CachesTyped, ReturnKeeps
<1> QED
  BY <1>4, <1>5, <1>6

LEMMA KeepReferenceInv ==
  ASSUME IInv, NEW c \in Clients, NEW pc \in DOMAIN ReferenceStages, KeepReference(c, pc)
  PROVE  IInv'
<1> DEFINE entry == [key |-> client[c].request.model, service |-> client[c].ref]
<1>1. /\ client[c].pc = ReferenceStages[pc] /\ pc \in {"reference", "density"}
      /\ references' = Put(references, entry, ReferenceSize)
      /\ Goto(c, AfterReference(pc))
      /\ UNCHANGED flashes /\ UNCHANGED jvmVars
  BY Stages DEF KeepReference, AfterReference
<1>2. client[c] \in ClientStates /\ client[c].pc \in Referring /\ Busy(c)
  BY <1>1, Stages DEF IInv, TypeInv, Referring, Answered, Busy
<1>3. client[c].request \in Requests
  BY <1>2 DEF IInv, TypeInv, ClientStates, Busy
<1>4. entry \in References
  BY <1>2, <1>3 DEF References, Models, ClientStates
<1>5. ~raced => entry \in [key : Models, service : Current]
  BY <1>2, <1>3 DEF Models, IInv, Undisturbed, Current
<1>6. /\ references' \in Seq(References)
      /\ ~raced => references' \in Seq([key : Models, service : Current])
  <2> HIDE DEF entry
  <2>1. ReferenceSize \in Nat
    BY DEF IInv, TypeInv
  <2> QED
    BY <1>1, <1>4, <1>5, <2>1, CachesTyped, PutKeeps
<1>7. /\ AfterReference(pc) \in Referring
      /\ AfterReference(pc) \in Answered => client[c].pc \in Answered
  BY <1>1, Stages DEF AfterReference, Referring, Answered
<1> QED
  BY <1>1, <1>2, <1>6, <1>7, CachesTyped, GotoKeeps

LEMMA FlashInv ==
  ASSUME IInv, NEW c \in Clients, Flash(c)
  PROVE  IInv'
<1>1. client[c].pc = "flash" /\ UNCHANGED references /\ UNCHANGED flashes /\ UNCHANGED jvmVars
  BY DEF Flash
<1>2. Busy(c) /\ client[c] \in ClientStates /\ client[c].request \in Requests
  BY <1>1 DEF Busy, IInv, TypeInv, ClientStates
<1>3. CASE Return(c, ERROR)
  BY <1>1, <1>2, <1>3, CachesTyped, ReturnKeeps
<1>4. ASSUME NEW a \in Requests, ~raced => a = client[c].request,
             client' = [client EXCEPT ![c].answer = a, ![c].pc = "density"]
      PROVE  IInv'
  <2> DEFINE s == [client[c] EXCEPT !.answer = a]
             d == [s EXCEPT !.pc = "density"]
  <2>1. s \in ClientStates /\ s.request = client[c].request /\ s.ref = client[c].ref /\ s.answer = a
    BY <1>2, StateExcept
  <2>2. d \in ClientStates /\ d.pc = "density" /\ d.request = client[c].request /\ d.ref = client[c].ref
        /\ d.answer = a
    <3> HIDE DEF s
    <3>1. "density" \in {"idle"} \cup Before \cup Referring
      BY DEF Referring, Answered
    <3> QED
      BY <2>1, <3>1, StateExcept
  <2>3. client' = [client EXCEPT ![c] = d]
    BY <1>2, <1>4 DEF IInv, TypeInv
  <2> HIDE DEF d
  <2>4. ~raced => client[c].ref = service /\ service # NONE
    BY <1>1 DEF IInv, Undisturbed, Referring
  <2>5. d.request # NONE /\ d.pc # "idle"
    BY <1>2, <2>2, NoneAssumption
  <2> QED
    BY <1>1, <1>2, <1>4, <2>2, <2>3, <2>4, <2>5, CachesTyped, RequestKeeps
<1>5. ~raced => client[c].ref = service
  BY <1>1 DEF IInv, Undisturbed, Referring
<1> QED
  BY <1>2, <1>3, <1>4, <1>5 DEF Flash

LEMMA KeepFlashInv ==
  ASSUME IInv, NEW c \in Clients, KeepFlash(c)
  PROVE  IInv'
<1> DEFINE answer == client[c].answer
           entry  == [key |-> FlashKey(client[c].request), answer |-> answer]
<1>1. client[c].pc = "extract" /\ UNCHANGED references /\ UNCHANGED jvmVars
  BY DEF KeepFlash
<1>2. Busy(c) /\ client[c].request \in Requests /\ answer \in Requests
  BY <1>1 DEF Busy, IInv, TypeInv, ClientStates, Answered
<1>3. CASE Return(c, ERROR) /\ UNCHANGED flashes
  BY <1>1, <1>2, <1>3, CachesTyped, ReturnKeeps
<1>4. CASE answer \notin Unsolvable /\ Return(c, answer) /\ flashes' = Put(flashes, entry, FlashSize)
  <2>1. entry \in Flashes
    BY <1>2 DEF Flashes
  <2>2. ASSUME ~raced PROVE entry \in {Kept(q) : q \in Requests \ Unsolvable}
    <3>1. answer = client[c].request
      BY <1>1, <2>2 DEF IInv, Undisturbed, Answered
    <3>2. entry = Kept(answer) /\ answer \in Requests \ Unsolvable
      BY <1>2, <1>4, <3>1 DEF Kept
    <3> QED
      BY <3>2
  <2>3. /\ flashes' \in Seq(Flashes)
        /\ ~raced => flashes' \in Seq({Kept(q) : q \in Requests \ Unsolvable})
    <3> HIDE DEF entry
    <3>1. FlashSize \in Nat
      BY DEF IInv, TypeInv
    <3> QED
      BY <1>4, <2>1, <2>2, <3>1, CachesTyped, PutKeeps
  <2> QED
    BY <1>1, <1>2, <1>4, <2>3, CachesTyped, ReturnKeeps
<1> QED
  BY <1>3, <1>4 DEF KeepFlash

LEMMA NextInv == IInv /\ [Next]_vars => IInv'
<1> SUFFICES ASSUME IInv, [Next]_vars PROVE IInv'
  OBVIOUS
<1>1. ASSUME NEW c \in Clients, Request(c) PROVE IInv'
  BY <1>1, LookUpFlashInv, LookUpReferenceInv, KeepReferenceInv, FlashInv, KeepFlashInv DEF Request
<1>2. CASE UNCHANGED vars
  BY <1>2 DEF vars, IInv, TypeInv, Undisturbed, Usable, ReferenceSize, FlashSize, Current, Busy
<1> QED
  BY <1>1, <1>2, EnterInv, ExitInv, CloseInv, AskInv DEF Next

\* The invariant behind the others.
THEOREM Inductive == Spec => []IInv
  BY InitInv, NextInv, PTL DEF Spec

\* No reference of a JVM that is gone is left in the cache, however contexts are
\* nested, caches sized and requests interleaved, and whatever a shutdown raises.
THEOREM NothingDangles == Spec => []NoDanglingReference
<1>1. IInv => NoDanglingReference
  <2> SUFFICES ASSUME IInv, ~raced, NEW i \in DOMAIN references
               PROVE  references[i].service = service
    BY DEF NoDanglingReference
  <2> DEFINE S == [key : Models, service : Current]
  <2>1. references \in Seq(S)
    BY DEF IInv, Undisturbed
  <2>2. references[i] \in S
    <3> HIDE DEF S
    <3> QED
      BY <2>1, LenProperties
  <2>3. references[i].service \in Current
    BY <2>2
  <2> QED
    BY <2>3 DEF Current
<1> QED
  BY <1>1, Inductive, PTL

(***************************************************************************)
(* Refinement: what each step is to those who only see requests, replies    *)
(* and whether a JVM serves.                                                *)
(***************************************************************************)
Asked == [c \in Clients |-> client[c].request]

LEMMA InitRefines == Init => Abstract!Init
  BY DEF Init, Abstract!Init, Idle, Usable

LEMMA EnterRefines ==
  ASSUME IInv, NEW kind \in {PY4J, JPYPE}, Enter(kind)
  PROVE  [Abstract!Next]_Abstract!vars
<1>1. UNCHANGED <<client, reply, raced>>
  BY DEF Enter
<1>2. Usable'
  <2>1. IInv'
    BY EnterInv
  <2>2. service' # NONE
    <3>1. CASE service = NONE
      <4>1. services \in Seq(Services)
        BY DEF IInv, TypeInv
      <4>2. Len(services') \in Nat
        BY <3>1, <2>1 DEF IInv, TypeInv
      <4> QED
        BY <3>1, <4>2, NoneAssumption DEF Enter
    <3> QED
      BY <3>1 DEF Enter
  <2> QED
    BY <2>1, <2>2 DEF IInv, TypeInv
<1>3. CASE ~Usable
  BY <1>1, <1>2, <1>3 DEF Abstract!Next, Abstract!Start
<1>4. CASE Usable
  BY <1>1, <1>2, <1>4 DEF Abstract!vars, Usable
<1> QED
  BY <1>3, <1>4

LEMMA ExitRefines ==
  ASSUME IInv, Exit
  PROVE  [Abstract!Next]_Abstract!vars
<1>1. UNCHANGED <<client, reply, service, services>> /\ (Usable' <=> Usable)
  BY DEF Exit, Usable
<1>2. CASE ClearAll
  <2>1. (\E c \in Clients : Busy(c)) <=> ~\A c \in Clients : Asked[c] = NONE
    BY DEF Busy, Asked, IInv, TypeInv
  <2> QED
    BY <1>1, <1>2, <2>1 DEF ClearAll, Abstract!Next, Abstract!BeginShutdown, Abstract!AtRest, Asked
<1>3. CASE UNCHANGED raced
  BY <1>1, <1>3 DEF Abstract!vars
<1> QED
  BY <1>2, <1>3 DEF Exit

LEMMA CloseRefines ==
  ASSUME IInv, Close
  PROVE  [Abstract!Next]_Abstract!vars
<1>1. UNCHANGED <<client, reply, raced>> /\ service' = NONE /\ closing
  BY DEF Close
<1>2. ~Usable'
  BY <1>1 DEF Usable
<1>3. raced \/ \A c \in Clients : Asked[c] = NONE
  BY <1>1 DEF IInv, Undisturbed, TypeInv, Busy, Asked
<1>4. CASE Usable
  BY <1>1, <1>2, <1>3, <1>4 DEF Abstract!Next, Abstract!Stop, Abstract!AtRest, Asked
<1>5. CASE ~Usable
  BY <1>1, <1>2, <1>5 DEF Abstract!vars, Usable
<1> QED
  BY <1>4, <1>5

LEMMA AskRefines ==
  ASSUME IInv, NEW c \in Clients, Ask(c)
  PROVE  Abstract!Ask(c)
<1>1. PICK q \in Requests : client' = [client EXCEPT ![c] = [Idle EXCEPT !.pc = "flash cache", !.request = q]]
  BY DEF Ask
<1>2. ~Busy(c) /\ reply' = NONE /\ raced' = (raced \/ closing) /\ UNCHANGED <<service, services>>
  BY DEF Ask
<1>3. [Idle EXCEPT !.pc = "flash cache", !.request = q].request = q
  <2> DEFINE waiting == [Idle EXCEPT !.pc = "flash cache"]
  <2>1. waiting \in ClientStates
    BY StateExcept, IdleState DEF Before
  <2> QED
    <3> HIDE DEF waiting
    <3>1. [waiting EXCEPT !.request = q].request = q
      BY <2>1, StateExcept
    <3> QED
      BY <3>1 DEF waiting
<1>4. [e \in Clients |-> client'[e].request] = [Asked EXCEPT ![c] = q]
  <2> DEFINE d == [Idle EXCEPT !.pc = "flash cache", !.request = q]
  <2>1. client' = [client EXCEPT ![c] = d] /\ d.request = q
    BY <1>1, <1>3
  <2> HIDE DEF d
  <2> QED
    BY <2>1 DEF Asked, IInv, TypeInv
<1>5. Asked[c] = NONE
  BY <1>2 DEF Asked, Busy, IInv, TypeInv
<1>6. raced' \in {raced, TRUE}
  BY <1>2 DEF IInv, TypeInv
<1>7. Usable' = Usable
  BY <1>2 DEF Usable
<1> QED
  BY <1>2, <1>4, <1>5, <1>6, <1>7 DEF Abstract!Ask, Asked

\* A reply that the service may give is an answer.
LEMMA ReturnRefines ==
  ASSUME IInv, UNCHANGED jvmVars, NEW c \in Clients, Busy(c), NEW r \in Requests \cup {ERROR}, Return(c, r),
         \/ r = client[c].request /\ r \notin Unsolvable
         \/ r = ERROR /\ (client[c].request \in Unsolvable \/ ~Usable)
         \/ raced
  PROVE  Abstract!Answer(c)
<1>1. [e \in Clients |-> client'[e].request] = [Asked EXCEPT ![c] = NONE]
  BY IdleState DEF Return, Asked, IInv, TypeInv
<1>2. Asked[c] # NONE /\ Asked[c] = client[c].request
  BY DEF Asked, Busy, IInv, TypeInv
<1>3. UNCHANGED <<service, services, raced>>
  BY DEF jvmVars
<1>4. Usable' = Usable
  BY <1>3 DEF Usable
<1>5. reply' = [to |-> c, is |-> r]
  BY DEF Return
<1> QED
  BY <1>1, <1>2, <1>3, <1>4, <1>5 DEF Abstract!Answer, Abstract!Replies, Asked

\* A step in which no client asks or is answered is not seen.
LEMMA UnseenRefines ==
  ASSUME IInv, UNCHANGED jvmVars, UNCHANGED reply, NEW c \in Clients, NEW d,
         client' = [client EXCEPT ![c] = d], d.request = client[c].request
  PROVE  UNCHANGED Abstract!vars
<1>1. [e \in Clients |-> client'[e].request] = Asked
  BY DEF Asked, IInv, TypeInv
<1>2. UNCHANGED <<service, services, raced>>
  BY DEF jvmVars
<1> QED
  BY <1>1, <1>2 DEF Abstract!vars, Usable, Asked

LEMMA GotoRefines ==
  ASSUME IInv, UNCHANGED jvmVars, UNCHANGED reply, NEW c \in Clients, NEW pc \in Before \cup Referring, Goto(c, pc)
  PROVE  UNCHANGED Abstract!vars
<1> DEFINE d == [client[c] EXCEPT !.pc = pc]
<1>1. client' = [client EXCEPT ![c] = d]
  BY DEF Goto
<1>2. d.request = client[c].request
  BY StateExcept DEF IInv, TypeInv
<1> QED
  <2> HIDE DEF d
  <2> QED
    BY <1>1, <1>2, UnseenRefines

LEMMA LookUpFlashRefines ==
  ASSUME IInv, NEW c \in Clients, LookUpFlash(c)
  PROVE  [Abstract!Next]_Abstract!vars
<1> DEFINE key   == FlashKey(client[c].request)
           found == Entry(flashes, key)
<1>1. client[c].pc = "flash cache" /\ UNCHANGED jvmVars
  BY DEF LookUpFlash
<1>2. Busy(c) /\ client[c].request \in Requests
  BY <1>1 DEF Busy, IInv, TypeInv, ClientStates
<1>3. CASE key \in Keys(flashes)
  <2>1. Return(c, found.answer)
    BY <1>3 DEF LookUpFlash
  <2>2. found.key = key /\ \A S : flashes \in Seq(S) => found \in S
    <3> HIDE DEF key
    <3> QED
      BY <1>3, CachesTyped, EntryOfKey
  <2> HIDE DEF found
  <2>3. found.answer \in Requests
    <3>1. found \in Flashes
      BY <2>2, CachesTyped
    <3> QED
      BY <3>1 DEF Flashes
  <2>4. ASSUME ~raced PROVE found.answer = client[c].request /\ found.answer \notin Unsolvable
    <3>1. found \in {Kept(q) : q \in Requests \ Unsolvable}
      BY <2>2, <2>4, CachesTyped
    <3>2. PICK q \in Requests \ Unsolvable : found = Kept(q)
      BY <3>1
    <3>3. found.answer = q /\ FlashKey(q) = FlashKey(client[c].request)
      BY <2>2, <3>2 DEF Kept
    <3>4. q.flash = client[c].request.flash /\ q.model = client[c].request.model /\ q.state = client[c].request.state
      BY <3>3 DEF FlashKey
    <3>5. q = client[c].request
      BY <1>2, <3>4, RequestsAssumption
    <3> QED
      BY <3>3, <3>5
  <2>5. Abstract!Answer(c)
    BY <1>1, <1>2, <2>1, <2>3, <2>4, ReturnRefines
  <2> QED
    BY <2>5 DEF Abstract!Next
<1>4. CASE key \notin Keys(flashes)
  <2>1. Goto(c, "reference") /\ UNCHANGED reply
    BY <1>4 DEF LookUpFlash
  <2> QED
    BY <1>1, <2>1, GotoRefines DEF Before
<1> QED
  BY <1>3, <1>4

LEMMA LookUpReferenceRefines ==
  ASSUME IInv, NEW c \in Clients, NEW pc \in DOMAIN ReferenceStages, LookUpReference(c, pc)
  PROVE  [Abstract!Next]_Abstract!vars
<1>1. client[c].pc = pc /\ UNCHANGED jvmVars /\ pc \in {"reference", "density"}
  BY Stages DEF LookUpReference
<1>2. Busy(c) /\ client[c] \in ClientStates
  BY <1>1 DEF Busy, IInv, TypeInv
<1>3. ASSUME NEW ref \in Nat \cup {NONE}, NEW to \in Referring,
             client' = [client EXCEPT ![c].ref = ref, ![c].pc = to], UNCHANGED reply
      PROVE  UNCHANGED Abstract!vars
  <2> DEFINE s == [client[c] EXCEPT !.ref = ref]
             d == [s EXCEPT !.pc = to]
  <2>1. s \in ClientStates /\ s.request = client[c].request
    BY <1>2, StateExcept
  <2>2. d.request = client[c].request
    <3> HIDE DEF s
    <3> QED
      BY <2>1, StateExcept
  <2>3. client' = [client EXCEPT ![c] = d]
    BY <1>2, <1>3 DEF IInv, TypeInv
  <2> HIDE DEF d
  <2> QED
    BY <1>1, <1>3, <2>2, <2>3, UnseenRefines
<1>4. AfterReference(pc) \in Referring /\ ReferenceStages[pc] \in Referring
  BY <1>1, Stages DEF AfterReference, Referring, Answered
<1>5. CASE client[c].request.model \in Keys(references)
  <2> DEFINE found == Entry(references, client[c].request.model)
  <2>1. client' = [client EXCEPT ![c].ref = found.service, ![c].pc = AfterReference(pc)] /\ UNCHANGED reply
    BY <1>5 DEF LookUpReference, AfterReference
  <2>2. found \in References
    BY <1>5, CachesTyped, EntryOfKey
  <2> HIDE DEF found
  <2>3. found.service \in Nat \cup {NONE}
    BY <2>2 DEF References
  <2> QED
    BY <1>3, <1>4, <2>1, <2>3
<1>6. CASE client[c].request.model \notin Keys(references) /\ Usable
  <2>1. client' = [client EXCEPT ![c].ref = service, ![c].pc = ReferenceStages[pc]] /\ UNCHANGED reply
    BY <1>6 DEF LookUpReference
  <2>2. service \in Nat \cup {NONE}
    BY DEF IInv, TypeInv
  <2> QED
    BY <1>3, <1>4, <2>1, <2>2
<1>7. CASE client[c].request.model \notin Keys(references) /\ ~Usable
  <2>1. Return(c, ERROR)
    BY <1>7 DEF LookUpReference
  <2> QED
    BY <1>1, <1>2, <1>7, <2>1, ReturnRefines DEF Abstract!Next
<1> QED
  BY <1>5, <1>6, <1>7

LEMMA KeepReferenceRefines ==
  ASSUME IInv, NEW c \in Clients, NEW pc \in DOMAIN ReferenceStages, KeepReference(c, pc)
  PROVE  UNCHANGED Abstract!vars
<1>1. Goto(c, AfterReference(pc)) /\ UNCHANGED reply /\ UNCHANGED jvmVars
  BY DEF KeepReference, AfterReference
<1>2. AfterReference(pc) \in Referring
  BY DEF AfterReference, Referring, Answered
<1> QED
  BY <1>1, <1>2, GotoRefines

LEMMA FlashRefines ==
  ASSUME IInv, NEW c \in Clients, Flash(c)
  PROVE  [Abstract!Next]_Abstract!vars
<1>1. client[c].pc = "flash" /\ UNCHANGED jvmVars
  BY DEF Flash
<1>2. Busy(c) /\ client[c] \in ClientStates /\ client[c].request \in Requests
  BY <1>1 DEF Busy, IInv, TypeInv, ClientStates
<1>3. CASE (~Usable \/ client[c].ref # service) /\ Return(c, ERROR)
  <2>1. raced \/ ~Usable
    BY <1>1, <1>3 DEF IInv, Undisturbed, Referring
  <2> QED
    BY <1>1, <1>2, <1>3, <2>1, ReturnRefines DEF Abstract!Next
<1>4. ASSUME NEW a \in Requests, UNCHANGED reply,
             client' = [client EXCEPT ![c].answer = a, ![c].pc = "density"]
      PROVE  UNCHANGED Abstract!vars
  <2> DEFINE s == [client[c] EXCEPT !.answer = a]
             d == [s EXCEPT !.pc = "density"]
  <2>1. s \in ClientStates /\ s.request = client[c].request
    BY <1>2, StateExcept
  <2>2. d.request = client[c].request
    <3> HIDE DEF s
    <3>1. "density" \in {"idle"} \cup Before \cup Referring
      BY DEF Referring, Answered
    <3> QED
      BY <2>1, <3>1, StateExcept
  <2>3. client' = [client EXCEPT ![c] = d]
    BY <1>2, <1>4 DEF IInv, TypeInv
  <2> HIDE DEF d
  <2> QED
    BY <1>1, <1>4, <2>2, <2>3, UnseenRefines
<1> QED
  BY <1>2, <1>3, <1>4 DEF Flash

LEMMA KeepFlashRefines ==
  ASSUME IInv, NEW c \in Clients, KeepFlash(c)
  PROVE  Abstract!Answer(c)
<1> DEFINE answer == client[c].answer
<1>1. client[c].pc = "extract" /\ UNCHANGED jvmVars
  BY DEF KeepFlash
<1>2. Busy(c) /\ answer \in Requests
  BY <1>1 DEF Busy, IInv, TypeInv, Answered
<1>3. ~raced => answer = client[c].request
  BY <1>1 DEF IInv, Undisturbed, Answered
<1>4. ~raced => services[client[c].ref].alive
  BY <1>1 DEF IInv, Undisturbed, TypeInv, Usable, Referring, Answered
<1>5. CASE (answer \in Unsolvable \/ ~services[client[c].ref].alive) /\ Return(c, ERROR)
  BY <1>1, <1>2, <1>3, <1>4, <1>5, ReturnRefines
<1>6. CASE answer \notin Unsolvable /\ Return(c, answer)
  BY <1>1, <1>2, <1>3, <1>6, ReturnRefines
<1> QED
  BY <1>5, <1>6 DEF KeepFlash

LEMMA NextRefines == IInv /\ [Next]_vars => [Abstract!Next]_Abstract!vars
<1> SUFFICES ASSUME IInv, [Next]_vars PROVE [Abstract!Next]_Abstract!vars
  OBVIOUS
<1>1. ASSUME NEW c \in Clients, Request(c) PROVE [Abstract!Next]_Abstract!vars
  BY <1>1, LookUpFlashRefines, LookUpReferenceRefines, KeepReferenceRefines, FlashRefines, KeepFlashRefines
     DEF Request, Abstract!Next
<1>2. ASSUME NEW c \in Clients, Ask(c) PROVE [Abstract!Next]_Abstract!vars
  BY <1>2, AskRefines DEF Abstract!Next
<1>3. CASE UNCHANGED vars
  BY <1>3 DEF vars, Abstract!vars, Usable
<1> QED
  BY <1>1, <1>2, <1>3, EnterRefines, ExitRefines, CloseRefines DEF Next

\* The caches, the contexts and the other clients are not seen by a client of
\* the service: as long as it is not shut down under a request, every request is
\* answered with the properties of the state it asks for, and refused only when it
\* has no solution or no JVM serves it.
THEOREM Implements == Spec => ImplementsThermoService
  BY InitRefines, NextRefines, Inductive, PTL DEF Spec, ImplementsThermoService, Abstract!Spec

(***************************************************************************)
(* The caches evict what was not asked for the longest, for every cache     *)
(* size, every number of clients and every interleaving.                    *)
(***************************************************************************)
KeysInOrder(cache) == [i \in DOMAIN cache |-> cache[i].key]
OneEntryAKey(cache) == \A i, j \in DOMAIN cache : cache[i].key = cache[j].key => i = j

\* The keys of a cache are a sequence, as long as the cache.
LEMMA KeysAreASeq ==
  ASSUME NEW S, NEW cache \in Seq(S)
  PROVE  /\ KeysInOrder(cache) \in Seq(Keys(cache))
         /\ Len(KeysInOrder(cache)) = Len(cache)
         /\ \A i \in 1 .. Len(cache) : KeysInOrder(cache)[i] = cache[i].key
<1>1. DOMAIN cache = 1 .. Len(cache) /\ Len(cache) \in Nat
  BY LenProperties
<1>2. KeysInOrder(cache) = [i \in 1 .. Len(cache) |-> cache[i].key]
  BY <1>1 DEF KeysInOrder
<1>3. \A i \in 1 .. Len(cache) : cache[i].key \in Keys(cache)
  BY <1>1 DEF Keys
<1>4. KeysInOrder(cache) \in [1 .. Len(cache) -> Keys(cache)]
  BY <1>2, <1>3
<1>5. KeysInOrder(cache) \in Seq(Keys(cache))
  BY <1>1, <1>4, SeqDef
<1> QED
  BY <1>1, <1>2, <1>5, LenProperties

\* The first key sought in a sequence without duplicates is the only one.
LEMMA OnlyPosition ==
  ASSUME NEW S, NEW cache \in Seq(S), OneEntryAKey(cache), NEW key \in Keys(cache)
  PROVE  SelectInSeq(KeysInOrder(cache), LAMBDA k : k = key) = Position(cache, key)
<1> DEFINE at == Position(cache, key)
           found == {i \in 1 .. Len(KeysInOrder(cache)) : KeysInOrder(cache)[i] = key}
<1>1. at \in 1 .. Len(cache) /\ cache[at].key = key
  BY EntryOfKey DEF Entry
<1>2. DOMAIN cache = 1 .. Len(cache) /\ Len(cache) \in Nat
  BY LenProperties
<1>3. found = {i \in 1 .. Len(cache) : cache[i].key = key}
  BY KeysAreASeq
<1>4. found = {at}
  BY <1>1, <1>2, <1>3 DEF OneEntryAKey
<1>5. Min(found) = at
  <2> HIDE DEF found
  <2>1. at \in Nat
    BY <1>1, <1>2
  <2> QED
    BY <1>4, <2>1 DEF Min
<1>6. SelectInSeq(KeysInOrder(cache), LAMBDA k : k = key) = IF found # {} THEN Min(found) ELSE 0
  BY DEF SelectInSeq
<1> QED
  BY <1>4, <1>5, <1>6

\* What is left of a sequence when position i is removed.
LEMMA RemovedAt ==
  ASSUME NEW S, NEW s \in Seq(S), NEW i \in 1 .. Len(s)
  PROVE  /\ RemoveAt(s, i) \in Seq(S)
         /\ Len(RemoveAt(s, i)) = Len(s) - 1
         /\ \A j \in 1 .. Len(s) - 1 : RemoveAt(s, i)[j] = IF j < i THEN s[j] ELSE s[j + 1]
<1> DEFINE before == SubSeq(s, 1, i - 1)
           after  == SubSeq(s, i + 1, Len(s))
<1>1. Len(s) \in Nat /\ i \in Nat /\ 1 <= i /\ i <= Len(s)
  BY LenProperties
<1>2. \A j \in 1 .. Len(s) : s[j] \in S
  BY ElementOfSeq
<1>3. /\ before \in Seq(S) /\ Len(before) = i - 1
      /\ \A j \in 1 .. i - 1 : before[j] = s[j]
  <2>1. i - 1 \in Int /\ \A j \in 1 .. i - 1 : s[j] \in S
    BY <1>1, <1>2
  <2>2. /\ before \in Seq(S)
        /\ Len(before) = IF 1 <= i - 1 THEN i - 1 - 1 + 1 ELSE 0
        /\ \A j \in 1 .. i - 1 - 1 + 1 : before[j] = s[1 + j - 1]
    BY <2>1, SubSeqProperties
  <2> HIDE DEF before
  <2> QED
    BY <1>1, <2>2
<1>4. /\ after \in Seq(S) /\ Len(after) = Len(s) - i
      /\ \A j \in 1 .. Len(s) - i : after[j] = s[i + j]
  <2>1. i + 1 \in Int /\ Len(s) \in Int /\ \A j \in i + 1 .. Len(s) : s[j] \in S
    BY <1>1, <1>2
  <2>2. /\ after \in Seq(S)
        /\ Len(after) = IF i + 1 <= Len(s) THEN Len(s) - (i + 1) + 1 ELSE 0
        /\ \A j \in 1 .. Len(s) - (i + 1) + 1 : after[j] = s[i + 1 + j - 1]
    BY <2>1, SubSeqProperties
  <2> HIDE DEF after
  <2> QED
    BY <1>1, <2>2
<1>5. RemoveAt(s, i) = before \o after
  BY DEF RemoveAt
<1> HIDE DEF before, after
<1>6. /\ before \o after \in Seq(S)
      /\ Len(before \o after) = Len(before) + Len(after)
      /\ \A j \in 1 .. Len(before) + Len(after) :
           (before \o after)[j] = IF j <= Len(before) THEN before[j] ELSE after[j - Len(before)]
  BY <1>3, <1>4, ConcatProperties
<1>7. Len(before) + Len(after) = Len(s) - 1
  BY <1>1, <1>3, <1>4
<1>8. ASSUME NEW j \in 1 .. Len(s) - 1
      PROVE  (before \o after)[j] = IF j < i THEN s[j] ELSE s[j + 1]
  <2>1. CASE j < i
    BY <1>1, <1>3, <1>6, <1>7, <2>1
  <2>2. CASE ~(j < i)
    <3>1. (before \o after)[j] = after[j - (i - 1)]
      BY <1>1, <1>3, <1>6, <1>7, <2>2
    <3>2. j - (i - 1) \in 1 .. Len(s) - i /\ i + (j - (i - 1)) = j + 1
      BY <1>1, <2>2
    <3> QED
      BY <1>4, <2>2, <3>1, <3>2
  <2> QED
    BY <2>1, <2>2
<1> QED
  BY <1>5, <1>6, <1>7, <1>8

\* Taking a key out of a cache takes it out of the keys in order, and leaves one
\* entry for every other key.
LEMMA WithoutIsRemoval ==
  ASSUME NEW S, NEW cache \in Seq(S), OneEntryAKey(cache), NEW key
  PROVE  LET rest == Without(cache, key)
         IN  /\ OneEntryAKey(rest)
             /\ key \notin Keys(rest)
             /\ KeysInOrder(rest) = RemoveFirst(KeysInOrder(cache), key)
             /\ Len(rest) <= Len(cache)
             /\ key \in Keys(cache) => Len(rest) = Len(cache) - 1
<1> DEFINE rest == Without(cache, key)
           keys == KeysInOrder(cache)
<1>1. DOMAIN cache = 1 .. Len(cache) /\ Len(cache) \in Nat
  BY LenProperties
<1>2. /\ keys \in Seq(Keys(cache)) /\ Len(keys) = Len(cache)
      /\ \A i \in 1 .. Len(cache) : keys[i] = cache[i].key
  BY KeysAreASeq
<1>3. CASE key \in Keys(cache)
  <2> DEFINE at == Position(cache, key)
  <2>1. at \in 1 .. Len(cache) /\ cache[at].key = key
    BY <1>3, EntryOfKey DEF Entry
  <2>2. rest = RemoveAt(cache, at)
    BY <1>3 DEF Without
  <2>3. /\ rest \in Seq(S) /\ Len(rest) = Len(cache) - 1
        /\ \A j \in 1 .. Len(cache) - 1 : rest[j] = IF j < at THEN cache[j] ELSE cache[j + 1]
    <3> HIDE DEF at, rest
    <3> QED
      BY <2>1, <2>2, RemovedAt
  <2> HIDE DEF rest, keys
  <2>4. DOMAIN rest = 1 .. Len(cache) - 1
    BY <2>3, LenProperties
  <2> DEFINE from(j) == IF j < at THEN j ELSE j + 1
  <2>5. \A j \in 1 .. Len(cache) - 1 : from(j) \in 1 .. Len(cache) /\ from(j) # at /\ rest[j] = cache[from(j)]
    <3> HIDE DEF at
    <3> QED
      BY <1>1, <2>1, <2>3
  <2>6. \A i, j \in 1 .. Len(cache) - 1 : from(i) = from(j) => i = j
    <3> HIDE DEF at
    <3> QED
      BY <1>1, <2>1
  <2> HIDE DEF from
  <2>7. OneEntryAKey(rest)
    BY <1>1, <2>4, <2>5, <2>6 DEF OneEntryAKey
  <2>8. key \notin Keys(rest)
    <3> SUFFICES ASSUME NEW j \in 1 .. Len(cache) - 1, rest[j].key = key PROVE FALSE
      BY <2>4 DEF Keys
    <3> QED
      BY <1>1, <2>1, <2>5 DEF OneEntryAKey
  <2>9. KeysInOrder(rest) = RemoveFirst(keys, key)
    <3>1. RemoveFirst(keys, key) = RemoveAt(keys, at)
      <4>1. \E i \in 1 .. Len(keys) : keys[i] = key
        BY <1>2, <2>1
      <4>2. SelectInSeq(keys, LAMBDA k : k = key) = at
        BY <1>3, OnlyPosition DEF keys
      <4> QED
        BY <4>1, <4>2 DEF RemoveFirst
    <3>2. /\ RemoveAt(keys, at) \in Seq(Keys(cache)) /\ Len(RemoveAt(keys, at)) = Len(cache) - 1
          /\ \A j \in 1 .. Len(cache) - 1 : RemoveAt(keys, at)[j] = IF j < at THEN keys[j] ELSE keys[j + 1]
      <4> HIDE DEF at
      <4> QED
        BY <1>2, <2>1, RemovedAt
    <3>3. /\ KeysInOrder(rest) \in Seq(Keys(rest)) /\ Len(KeysInOrder(rest)) = Len(cache) - 1
          /\ \A j \in 1 .. Len(cache) - 1 : KeysInOrder(rest)[j] = rest[j].key
      BY <2>3, KeysAreASeq
    <3>4. \A j \in 1 .. Len(cache) - 1 : KeysInOrder(rest)[j] = RemoveAt(keys, at)[j]
      <4> HIDE DEF at
      <4>1. ASSUME NEW j \in 1 .. Len(cache) - 1
            PROVE  RemoveAt(keys, at)[j] = cache[IF j < at THEN j ELSE j + 1].key
        BY <1>1, <1>2, <2>1, <3>2
      <4> QED
        BY <2>5, <3>3, <4>1 DEF from
    <3>5. Keys(rest) \subseteq Keys(cache)
      BY <1>1, <2>4, <2>5 DEF Keys
    <3>6. KeysInOrder(rest) \in Seq(Keys(cache))
      BY <3>3, <3>5, SeqMonotonic
    <3> HIDE DEF at
    <3> QED
      BY <3>1, <3>2, <3>3, <3>4, <3>6, SeqEqual
  <2> QED
    BY <1>1, <1>3, <2>3, <2>7, <2>8, <2>9 DEF rest, keys
<1>4. CASE key \notin Keys(cache)
  <2>1. rest = cache
    BY <1>4 DEF Without
  <2>2. ~\E i \in 1 .. Len(keys) : keys[i] = key
    BY <1>1, <1>2, <1>4 DEF Keys
  <2>3. RemoveFirst(keys, key) = keys
    <3> HIDE DEF keys
    <3> QED
      BY <2>2 DEF RemoveFirst
  <2>4. KeysInOrder(rest) = RemoveFirst(KeysInOrder(cache), key)
    BY <2>1, <2>3
  <2> HIDE DEF rest, keys
  <2>5. Len(rest) <= Len(cache)
    BY <1>1, <2>1
  <2> QED
    BY <1>4, <2>1, <2>4, <2>5 DEF rest
<1> QED
  BY <1>3, <1>4

\* An entry put last.
LEMMA AppendedLast ==
  ASSUME NEW S, NEW rest \in Seq(S), OneEntryAKey(rest), NEW entry \in S, entry.key \notin Keys(rest)
  PROVE  LET added == Append(rest, entry)
         IN  /\ added \in Seq(S) /\ added # <<>> /\ Len(added) = Len(rest) + 1
             /\ OneEntryAKey(added)
             /\ KeysInOrder(added) = Append(KeysInOrder(rest), entry.key)
<1> DEFINE added == Append(rest, entry)
           keys  == KeysInOrder(rest)
           all   == Keys(rest) \cup {entry.key}
<1>1. DOMAIN rest = 1 .. Len(rest) /\ Len(rest) \in Nat
  BY LenProperties
<1>2. /\ added \in Seq(S) /\ added # <<>> /\ Len(added) = Len(rest) + 1
      /\ \A i \in 1 .. Len(rest) : added[i] = rest[i]
      /\ added[Len(rest) + 1] = entry
  BY AppendProperties
<1>3. /\ keys \in Seq(Keys(rest)) /\ Len(keys) = Len(rest)
      /\ \A i \in 1 .. Len(rest) : keys[i] = rest[i].key
  BY KeysAreASeq
<1> HIDE DEF added, keys
<1>4. DOMAIN added = 1 .. Len(rest) + 1
  BY <1>2, LenProperties
<1>5. /\ KeysInOrder(added) \in Seq(Keys(added)) /\ Len(KeysInOrder(added)) = Len(rest) + 1
      /\ \A i \in 1 .. Len(rest) + 1 : KeysInOrder(added)[i] = added[i].key
  BY <1>2, KeysAreASeq
<1>6. keys \in Seq(all)
  BY <1>3, SeqMonotonic
<1>7. /\ Append(keys, entry.key) \in Seq(all)
      /\ Len(Append(keys, entry.key)) = Len(rest) + 1
      /\ \A i \in 1 .. Len(rest) : Append(keys, entry.key)[i] = keys[i]
      /\ Append(keys, entry.key)[Len(rest) + 1] = entry.key
  BY <1>3, <1>6, AppendProperties
<1>8. \A i \in 1 .. Len(rest) + 1 : i \in 1 .. Len(rest) \/ i = Len(rest) + 1
  BY <1>1
<1>9. \A i \in 1 .. Len(rest) : rest[i].key # entry.key
  BY <1>1 DEF Keys
<1>10. OneEntryAKey(added)
  BY <1>1, <1>2, <1>4, <1>8, <1>9 DEF OneEntryAKey
<1>11. Keys(added) \subseteq all
  BY <1>1, <1>2, <1>4, <1>8 DEF Keys
<1>12. KeysInOrder(added) \in Seq(all)
  BY <1>5, <1>11, SeqMonotonic
<1>13. \A i \in 1 .. Len(rest) + 1 : KeysInOrder(added)[i] = Append(keys, entry.key)[i]
  BY <1>2, <1>3, <1>5, <1>7, <1>8
<1>14. KeysInOrder(added) = Append(keys, entry.key)
  BY <1>5, <1>7, <1>12, <1>13, SeqEqual
<1> QED
  BY <1>2, <1>10, <1>14 DEF added, keys

\* What is evicted is the first.
LEMMA TailEvicts ==
  ASSUME NEW S, NEW cache \in Seq(S), OneEntryAKey(cache), cache # <<>>
  PROVE  /\ Tail(cache) \in Seq(S) /\ Len(Tail(cache)) = Len(cache) - 1
         /\ OneEntryAKey(Tail(cache))
         /\ KeysInOrder(Tail(cache)) = Tail(KeysInOrder(cache))
<1> DEFINE keys == KeysInOrder(cache)
           rest == Tail(cache)
<1>1. DOMAIN cache = 1 .. Len(cache) /\ Len(cache) \in Nat \ {0}
  BY LenProperties, EmptySeq
<1>2. /\ rest \in Seq(S) /\ Len(rest) = Len(cache) - 1
      /\ \A i \in 1 .. Len(cache) - 1 : rest[i] = cache[i + 1]
  BY HeadTailProperties
<1>3. /\ keys \in Seq(Keys(cache)) /\ Len(keys) = Len(cache)
      /\ \A i \in 1 .. Len(cache) : keys[i] = cache[i].key
  BY KeysAreASeq
<1> HIDE DEF rest, keys
<1>4. DOMAIN rest = 1 .. Len(cache) - 1
  BY <1>2, LenProperties
<1>5. \A i \in 1 .. Len(cache) - 1 : i + 1 \in 1 .. Len(cache)
  BY <1>1
<1>6. OneEntryAKey(rest)
  <2> SUFFICES ASSUME NEW i \in 1 .. Len(cache) - 1, NEW j \in 1 .. Len(cache) - 1, rest[i].key = rest[j].key
               PROVE  i = j
    BY <1>4 DEF OneEntryAKey
  <2>1. i + 1 = j + 1
    BY <1>1, <1>2, <1>5 DEF OneEntryAKey
  <2> QED
    BY <2>1
<1>7. keys # <<>>
  BY <1>1, <1>3, EmptySeq
<1>8. /\ Tail(keys) \in Seq(Keys(cache)) /\ Len(Tail(keys)) = Len(cache) - 1
      /\ \A i \in 1 .. Len(cache) - 1 : Tail(keys)[i] = keys[i + 1]
  BY <1>3, <1>7, HeadTailProperties
<1>9. /\ KeysInOrder(rest) \in Seq(Keys(rest)) /\ Len(KeysInOrder(rest)) = Len(cache) - 1
      /\ \A i \in 1 .. Len(cache) - 1 : KeysInOrder(rest)[i] = rest[i].key
  BY <1>2, KeysAreASeq
<1>10. Keys(rest) \subseteq Keys(cache)
  BY <1>1, <1>2, <1>4, <1>5 DEF Keys
<1>11. KeysInOrder(rest) \in Seq(Keys(cache))
  BY <1>9, <1>10, SeqMonotonic
<1>12. \A i \in 1 .. Len(cache) - 1 : KeysInOrder(rest)[i] = Tail(keys)[i]
  BY <1>2, <1>3, <1>5, <1>8, <1>9
<1>13. KeysInOrder(rest) = Tail(keys)
  BY <1>8, <1>9, <1>11, <1>12, SeqEqual
<1> QED
  BY <1>2, <1>6, <1>13 DEF rest, keys

(***************************************************************************)
(* LRUCache.get and LRUCache.put.                                          *)
(***************************************************************************)
\* The keys of a cache after one of them is used.
Used(keys, key, size) ==
  LET used == Append(RemoveFirst(keys, key), key)
  IN  IF Len(used) > size THEN Tail(used) ELSE used

\* A hit makes its entry the last, and evicts nothing.
LEMMA TouchedIsUse ==
  ASSUME NEW S, NEW cache \in Seq(S), OneEntryAKey(cache), NEW size \in Nat, Len(cache) <= size,
         NEW key \in Keys(cache)
  PROVE  LET after == Touched(cache, key)
         IN  /\ after \in Seq(S) /\ OneEntryAKey(after) /\ Len(after) <= size
             /\ KeysInOrder(after) = Used(KeysInOrder(cache), key, size)
<1> DEFINE entry == Entry(cache, key)
           rest  == Without(cache, key)
           after == Append(rest, entry)
<1>1. entry \in S /\ entry.key = key
  BY EntryOfKey
<1>2. /\ rest \in Seq(S) /\ OneEntryAKey(rest) /\ key \notin Keys(rest)
      /\ KeysInOrder(rest) = RemoveFirst(KeysInOrder(cache), key)
      /\ Len(rest) = Len(cache) - 1
  BY WithoutKeeps, WithoutIsRemoval
<1> HIDE DEF entry, rest
<1>3. /\ after \in Seq(S) /\ Len(after) = Len(rest) + 1 /\ OneEntryAKey(after)
      /\ KeysInOrder(after) = Append(KeysInOrder(rest), key)
  BY <1>1, <1>2, AppendedLast
<1> HIDE DEF after
<1>4. Len(after) <= size
  BY <1>2, <1>3, LenProperties
<1>5. ~(Len(KeysInOrder(after)) > size)
  <2>1. Len(KeysInOrder(after)) = Len(after) /\ Len(after) \in Nat
    BY <1>3, KeysAreASeq, LenProperties
  <2> QED
    BY <1>4, <2>1
<1>6. KeysInOrder(after) = Used(KeysInOrder(cache), key, size)
  BY <1>2, <1>3, <1>5 DEF Used
<1>7. after = Touched(cache, key)
  BY DEF after, rest, entry, Touched
<1> QED
  BY <1>3, <1>4, <1>6, <1>7

\* A new entry is the last, and the first makes room for it when the cache is full.
LEMMA PutIsUse ==
  ASSUME NEW S, NEW cache \in Seq(S), OneEntryAKey(cache), NEW size \in Nat, Len(cache) <= size,
         NEW entry \in S
  PROVE  LET after == Put(cache, entry, size)
         IN  /\ after \in Seq(S) /\ OneEntryAKey(after) /\ Len(after) <= size
             /\ KeysInOrder(after) = Used(KeysInOrder(cache), entry.key, size)
<1> DEFINE rest  == Without(cache, entry.key)
           added == Append(rest, entry)
           used  == Append(RemoveFirst(KeysInOrder(cache), entry.key), entry.key)
<1>1. /\ rest \in Seq(S) /\ OneEntryAKey(rest) /\ entry.key \notin Keys(rest)
      /\ KeysInOrder(rest) = RemoveFirst(KeysInOrder(cache), entry.key)
      /\ Len(rest) <= Len(cache)
  BY WithoutKeeps, WithoutIsRemoval
<1>2. /\ added \in Seq(S) /\ added # <<>> /\ Len(added) = Len(rest) + 1 /\ OneEntryAKey(added)
      /\ KeysInOrder(added) = used
  <2> HIDE DEF rest
  <2> QED
    BY <1>1, AppendedLast
<1>3. Len(rest) \in Nat /\ Len(cache) \in Nat
  BY <1>1, LenProperties
<1>4. Len(used) = Len(added)
  BY <1>2, KeysAreASeq
<1>5. CASE size = 0
  <2>1. Put(cache, entry, size) = cache
    BY <1>5 DEF Put
  <2>2. cache = <<>>
    BY <1>3, <1>5, EmptySeq
  <2>3. rest = <<>>
    BY <2>2 DEF Without, Keys
  <2>4. added = <<entry>>
    BY <2>3
  <2>5. Len(used) > size /\ Tail(used) = KeysInOrder(Tail(added))
    <3> HIDE DEF added, used, rest
    <3> QED
      BY <1>2, <1>3, <1>4, <1>5, TailEvicts
  <2>6. Tail(added) = <<>>
    BY <2>4
  <2>7. KeysInOrder(cache) = Tail(used)
    BY <2>2, <2>5, <2>6
  <2>8. Used(KeysInOrder(cache), entry.key, size) = Tail(used)
    BY <2>5 DEF Used
  <2> QED
    BY <2>1, <2>7, <2>8
<1>6. CASE size # 0 /\ Len(added) > size
  <2>1. Put(cache, entry, size) = Tail(added)
    BY <1>6 DEF Put
  <2>2. /\ Tail(added) \in Seq(S) /\ Len(Tail(added)) = Len(added) - 1 /\ OneEntryAKey(Tail(added))
        /\ KeysInOrder(Tail(added)) = Tail(used)
    <3> HIDE DEF added, used
    <3> QED
      BY <1>2, TailEvicts
  <2>3. Len(Tail(added)) <= size
    <3> HIDE DEF added, used, rest
    <3> QED
      BY <1>1, <1>2, <1>3, <2>2
  <2>4. Used(KeysInOrder(cache), entry.key, size) = Tail(used)
    BY <1>4, <1>6 DEF Used
  <2> QED
    BY <2>1, <2>2, <2>3, <2>4
<1>7. CASE size # 0 /\ ~(Len(added) > size)
  <2>1. Put(cache, entry, size) = added
    BY <1>7 DEF Put
  <2>2. Len(added) <= size
    <3> HIDE DEF added, rest
    <3> QED
      BY <1>2, <1>3, <1>7
  <2>3. Used(KeysInOrder(cache), entry.key, size) = used
    BY <1>4, <1>7 DEF Used
  <2> QED
    BY <1>2, <2>1, <2>2, <2>3
<1> QED
  BY <1>5, <1>6, <1>7

(***************************************************************************)
(* The invariant.                                                          *)
(***************************************************************************)
Recency ==
  /\ OneEntryAKey(references) /\ Len(references) <= ReferenceSize
  /\ OneEntryAKey(flashes) /\ Len(flashes) <= FlashSize
  /\ recent = KeysInOrder(flashes)

LEMMA InitRecency == Init => Recency
<1> SUFFICES ASSUME Init PROVE Recency
  OBVIOUS
<1>1. references = <<>> /\ flashes = <<>> /\ recent = <<>>
  BY DEF Init
<1>2. ReferenceSize \in Nat /\ FlashSize \in Nat
  BY InitInv DEF IInv, TypeInv
<1> QED
  BY <1>1, <1>2 DEF Recency, OneEntryAKey, KeysInOrder

LEMMA NextRecency == IInv /\ Recency /\ [Next]_vars => Recency'
<1> SUFFICES ASSUME IInv, Recency, [Next]_vars PROVE Recency'
  OBVIOUS
<1> DEFINE S == ReferenceSize
           F == FlashSize
<1>1. references \in Seq(References) /\ flashes \in Seq(Flashes) /\ S \in Nat /\ F \in Nat
  BY DEF IInv, TypeInv
<1>2. UNCHANGED requested
  BY DEF Next, vars, Enter, Exit, Close, Ask, Request, LookUpFlash, LookUpReference, KeepReference, Flash,
         KeepFlash, jvmVars
<1>3. UNCHANGED <<ReferenceSize, FlashSize>>
  BY <1>2 DEF ReferenceSize, FlashSize
<1>4. ASSUME UNCHANGED <<references, flashes, recent>> PROVE Recency'
  BY <1>3, <1>4 DEF Recency
<1>5. ASSUME ClearAll PROVE Recency'
  BY <1>1, <1>3, <1>5 DEF Recency, ClearAll, OneEntryAKey, KeysInOrder
<1>6. ASSUME NEW c \in Clients, LookUpFlash(c) PROVE Recency'
  <2> DEFINE key == FlashKey(client[c].request)
  <2>1. CASE key \in Keys(flashes)
    <3>1. flashes' = Touched(flashes, key) /\ Use(key) /\ UNCHANGED references
      BY <1>6, <2>1 DEF LookUpFlash
    <3> HIDE DEF key
    <3>2. recent' = Used(recent, key, F)
      BY <3>1 DEF Use, Used
    <3>3. OneEntryAKey(flashes') /\ Len(flashes') <= F /\ KeysInOrder(flashes') = Used(recent, key, F)
      BY <1>1, <2>1, <3>1, TouchedIsUse DEF Recency
    <3> QED
      BY <1>3, <3>1, <3>2, <3>3 DEF Recency
  <2>2. CASE key \notin Keys(flashes)
    BY <1>4, <1>6, <2>2 DEF LookUpFlash
  <2> QED
    BY <2>1, <2>2
<1>7. ASSUME NEW c \in Clients, NEW pc \in DOMAIN ReferenceStages, LookUpReference(c, pc) PROVE Recency'
  <2> DEFINE key == client[c].request.model
  <2>1. CASE key \in Keys(references)
    <3>1. references' = Touched(references, key) /\ UNCHANGED <<flashes, recent>>
      BY <1>7, <2>1 DEF LookUpReference
    <3> HIDE DEF key
    <3>2. OneEntryAKey(references') /\ Len(references') <= S
      BY <1>1, <2>1, <3>1, TouchedIsUse DEF Recency
    <3> QED
      BY <1>3, <3>1, <3>2 DEF Recency
  <2>2. CASE key \notin Keys(references)
    BY <1>4, <1>7, <2>2 DEF LookUpReference
  <2> QED
    BY <2>1, <2>2
<1>8. ASSUME NEW c \in Clients, NEW pc \in DOMAIN ReferenceStages, KeepReference(c, pc) PROVE Recency'
  <2> DEFINE entry == [key |-> client[c].request.model, service |-> client[c].ref]
  <2>1. references' = Put(references, entry, S) /\ UNCHANGED <<flashes, recent>>
    BY <1>8 DEF KeepReference
  <2>2. entry \in References
    <3>1. client[c] \in ClientStates /\ client[c].pc = ReferenceStages[pc]
      BY <1>8 DEF KeepReference, IInv, TypeInv
    <3>2. client[c].pc # "idle"
      BY <3>1, Stages
    <3>3. client[c].request \in Requests
      BY <3>1, <3>2 DEF IInv, TypeInv, ClientStates
    <3> QED
      BY <3>1, <3>3 DEF References, Models, ClientStates
  <2> HIDE DEF entry
  <2>3. OneEntryAKey(references') /\ Len(references') <= S
    BY <1>1, <2>1, <2>2, PutIsUse DEF Recency
  <2> QED
    BY <1>3, <2>1, <2>3 DEF Recency
<1>9. ASSUME NEW c \in Clients, KeepFlash(c) PROVE Recency'
  <2> DEFINE entry == [key |-> FlashKey(client[c].request), answer |-> client[c].answer]
  <2>1. UNCHANGED references
    BY <1>9 DEF KeepFlash
  <2>2. CASE flashes' = Put(flashes, entry, F) /\ Use(entry.key)
    <3>1. entry \in Flashes
      <4>1. client[c].pc = "extract"
        BY <1>9 DEF KeepFlash
      <4>2. client[c].request \in Requests /\ client[c].answer \in Requests
        BY <4>1 DEF IInv, TypeInv, ClientStates, Answered
      <4> QED
        BY <4>2 DEF Flashes
    <3> HIDE DEF entry
    <3>2. recent' = Used(recent, entry.key, F)
      BY <2>2 DEF Use, Used
    <3>3. OneEntryAKey(flashes') /\ Len(flashes') <= F /\ KeysInOrder(flashes') = Used(recent, entry.key, F)
      BY <1>1, <2>2, <3>1, PutIsUse DEF Recency
    <3> QED
      BY <1>3, <2>1, <3>2, <3>3 DEF Recency
  <2>3. CASE UNCHANGED <<flashes, recent>>
    BY <1>4, <2>1, <2>3
  <2> QED
    BY <1>9, <2>2, <2>3 DEF KeepFlash
<1>10. ASSUME NEW kind \in {PY4J, JPYPE}, Enter(kind) PROVE Recency'
  BY <1>4, <1>10 DEF Enter
<1>11. ASSUME Exit PROVE Recency'
  BY <1>4, <1>5, <1>11 DEF Exit
<1>12. ASSUME Close PROVE Recency'
  BY <1>4, <1>12 DEF Close
<1>13. ASSUME NEW c \in Clients, Ask(c) PROVE Recency'
  BY <1>4, <1>13 DEF Ask
<1>14. ASSUME NEW c \in Clients, Flash(c) PROVE Recency'
  BY <1>4, <1>14 DEF Flash
<1>15. CASE UNCHANGED vars
  BY <1>4, <1>15 DEF vars
<1> HIDE DEF S, F
<1> QED
  BY <1>6, <1>7, <1>8, <1>9, <1>10, <1>11, <1>12, <1>13, <1>14, <1>15 DEF Next, Request

\* A cache with one entry for a key has as many keys as entries.
LEMMA OneEntryFits ==
  ASSUME NEW S, NEW cache \in Seq(S), OneEntryAKey(cache), NEW size \in Nat, Len(cache) <= size
  PROVE  Fits(cache, size)
<1> DEFINE f == [i \in 1 .. Len(cache) |-> cache[i].key]
<1>1. DOMAIN cache = 1 .. Len(cache) /\ Len(cache) \in Nat
  BY LenProperties
<1>2. f \in Bijection(1 .. Len(cache), Keys(cache))
  <2>1. f \in [1 .. Len(cache) -> Keys(cache)]
    BY <1>1 DEF Keys
  <2>2. \A i, j \in 1 .. Len(cache) : f[i] = f[j] => i = j
    BY <1>1 DEF OneEntryAKey
  <2>3. \A k \in Keys(cache) : \E i \in 1 .. Len(cache) : f[i] = k
    BY <1>1 DEF Keys
  <2> HIDE DEF f
  <2> QED
    BY <2>1, <2>2, <2>3 DEF Bijection, Injection, Surjection, IsInjective
<1>3. IsFiniteSet(1 .. Len(cache)) /\ Cardinality(1 .. Len(cache)) = Len(cache)
  <2>1. /\ IsFiniteSet(1 .. Len(cache))
        /\ Cardinality(1 .. Len(cache)) = IF 1 > Len(cache) THEN 0 ELSE Len(cache) - 1 + 1
    <3>1. 1 \in Int /\ Len(cache) \in Int
      BY <1>1
    <3> QED
      BY <3>1, FS_Interval
  <2> QED
    BY <1>1, <2>1
<1>4. Cardinality(Keys(cache)) = Len(cache)
  <2> HIDE DEF f
  <2>1. ExistsBijection(1 .. Len(cache), Keys(cache))
    BY <1>2 DEF ExistsBijection
  <2> QED
    BY <1>3, <2>1, FS_Bijection
<1> QED
  BY <1>4 DEF Fits

\* LRUCache: however requests interleave and contexts nest, a cache holds at most
\* one entry for a key and no more entries than its size, and what it evicted is
\* what was not asked for the longest.
THEOREM MostRecentKept == Spec => []KeepsTheMostRecent
<1>1. IInv /\ Recency => KeepsTheMostRecent
  <2> SUFFICES ASSUME IInv, Recency PROVE KeepsTheMostRecent
    OBVIOUS
  <2>1. /\ references \in Seq(References) /\ flashes \in Seq(Flashes)
        /\ ReferenceSize \in Nat /\ FlashSize \in Nat
    BY DEF IInv, TypeInv
  <2> QED
    BY <2>1, OneEntryFits DEF Recency, KeysInOrder, KeepsTheMostRecent
<1> QED
  BY <1>1, InitInv, NextInv, InitRecency, NextRecency, PTL DEF Spec

=============================================================================
