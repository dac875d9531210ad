--------------------------- MODULE NeqsimService ---------------------------
(***************************************************************************)
(* The thermodynamic service of a process (src/ecalc_neqsim_wrapper): the   *)
(* JVM behind the module global _neqsim_service, opened and shut down by    *)
(* contexts that may nest, and the two least recently used caches filled    *)
(* from it.  Main opens and closes the contexts; it and the other threads   *)
(* make requests.  The caches have locks, one call of theirs is one step;   *)
(* nothing else is locked.                                                  *)
(***************************************************************************)
EXTENDS Naturals, Sequences, SequencesExt

CONSTANTS Clients, Main,
          Requests,         \* [flash, model, state]; named by their own answers
          Unsolvable,       \* PH requests whose result validate_ph_flash_result rejects
          Options,          \* [reference, flash]: --reference-cache-size, --flash-cache-size
          DefaultSize,      \* CacheConfig
          ShutdownOnExit,   \* the settings of Py4JConfig to consider
          MaxStarts,        \* bound on the services created
          MaxNesting,       \* bound on the contexts open at once
          NONE, ERROR

ASSUME ClientsAssumption == Main \in Clients
ASSUME SizesAssumption ==
  /\ DefaultSize \in Nat
  /\ Options \subseteq [reference : Nat \cup {NONE}, flash : Nat \cup {NONE}]

\* A request says what is flashed, with which fluid, to which state.
ASSUME RequestsAssumption ==
  \A q \in Requests : q = [flash |-> q.flash, model |-> q.model, state |-> q.state]

ASSUME NoneAssumption == NONE \notin Requests /\ NONE \notin Nat

PY4J  == "py4j"
JPYPE == "jpype"

Idle == [pc |-> "idle", request |-> NONE, ref |-> NONE, answer |-> NONE]

VARIABLES service,      \* _neqsim_service: an index of services, or NONE
          services,     \* every service created: [kind, gateway, alive]
          shutdownOnExit,
          contexts,     \* the services Main entered and has not left
          closing,      \* Main is in shutdown, between clear_all and the gateway
          requested,    \* the options of the command line
          references,   \* reference cache: [key, service], least recently used first
          flashes,      \* flash cache: [key, answer], least recently used first
          client,       \* where each client is in its request
          reply,
          raced,        \* a request ran during the last shutdown
          recent        \* the last FlashSize flash keys used since the caches were cleared

vars == <<service, services, shutdownOnExit, contexts, closing, requested,
          references, flashes, client, reply, raced, recent>>

jvmVars == <<service, services, shutdownOnExit, contexts, closing, requested, raced>>

(***************************************************************************)
(* LRUCache: the entries of an OrderedDict, least recently used first.      *)
(***************************************************************************)
Keys(cache) == {cache[i].key : i \in DOMAIN cache}
Position(cache, key) == CHOOSE i \in DOMAIN cache : cache[i].key = key
Entry(cache, key) == cache[Position(cache, key)]
Without(cache, key) ==
  IF key \in Keys(cache) THEN RemoveAt(cache, Position(cache, key)) ELSE cache

\* Mutant: a hit leaves the order of the entries alone.
FirstInFirstOut(cache, key) == cache

\* LRUCache.get, of a key that is there.
Touched(cache, key) == Append(Without(cache, key), Entry(cache, key))

\* LRUCache.put.
Put(cache, entry, size) ==
  IF size = 0 THEN cache
  ELSE LET added == Append(Without(cache, entry.key), entry)
       IN  IF Len(added) > size THEN Tail(added) ELSE added

\* run.py: `option or default`, so that an option of 0 asks for the default.
CacheSize(option) == IF option \in {NONE, 0} THEN DefaultSize ELSE option
ReferenceSize == CacheSize(requested.reference)
FlashSize     == CacheSize(requested.flash)

\* _make_pt_cache_key and _make_ph_cache_key.
FlashKey(q) == <<q.flash, q.model, q.state>>

(***************************************************************************)
(* The JVM.                                                                 *)
(***************************************************************************)
\* NeqsimService.instance().get_neqsim_module() answers.
Usable == service # NONE /\ services[service].gateway /\ services[service].alive

Busy(c) == client[c].pc # "idle"

Init ==
  /\ service = NONE /\ services = <<>> /\ contexts = <<>> /\ closing = FALSE
  /\ shutdownOnExit \in ShutdownOnExit
  /\ requested \in Options
  /\ references = <<>> /\ flashes = <<>> /\ recent = <<>>
  /\ client = [c \in Clients |-> Idle]
  /\ reply = NONE
  /\ raced = FALSE

MainIsFree == ~Busy(Main) /\ ~closing

\* with NeqsimService.factory(use_jpype).initialize(): a service of the other
\* kind makes initialize raise.
Enter(kind) ==
  /\ MainIsFree /\ Len(contexts) < MaxNesting
  /\ \/ /\ service = NONE /\ Len(services) < MaxStarts
        /\ services' = Append(services, [kind |-> kind, gateway |-> TRUE, alive |-> TRUE])
        /\ service' = Len(services')
     \/ /\ service # NONE /\ services[service].kind = kind
        /\ UNCHANGED <<service, services>>
  /\ contexts' = Append(contexts, service')
  /\ UNCHANGED <<shutdownOnExit, closing, requested, references, flashes,
                 client, reply, raced, recent>>

\* Mutant: shutdown without CacheService.clear_all.
LeaveAll ==
  /\ UNCHANGED <<references, flashes, recent>>
  /\ raced' = (\E c \in Clients : Busy(c))

\* CacheService.clear_all.
ClearAll ==
  /\ references' = <<>> /\ flashes' = <<>> /\ recent' = <<>>
  /\ raced' = (\E c \in Clients : Busy(c))

\* The end of a context.  Only a Py4J context whose own gateway is still set
\* shuts down, and it shuts down whatever service is current.
Exit ==
  /\ MainIsFree /\ contexts # <<>>
  /\ LET left == services[Last(contexts)]
     IN  IF left.kind = PY4J /\ shutdownOnExit /\ left.gateway
         THEN ClearAll /\ closing' = TRUE
         ELSE UNCHANGED <<references, flashes, recent, raced, closing>>
  /\ contexts' = Front(contexts)
  /\ UNCHANGED <<service, services, shutdownOnExit, requested, client, reply>>

\* gateway.shutdown() may raise: the gateway then stays set, with its JVM
\* running or not, and the service is forgotten all the same.
Close ==
  /\ closing
  /\ IF service # NONE /\ services[service].kind = PY4J
     THEN \E raises, survives \in BOOLEAN :
            /\ survives => raises
            /\ services' = [services EXCEPT ![service].gateway = raises,
                                            ![service].alive = survives]
     ELSE UNCHANGED services
  /\ service' = NONE
  /\ closing' = FALSE
  /\ UNCHANGED <<shutdownOnExit, contexts, requested, references, flashes,
                 client, reply, raced, recent>>

(***************************************************************************)
(* NeqSimFluidService.flash_pt and flash_ph.                                *)
(***************************************************************************)
Goto(c, pc) == client' = [client EXCEPT ![c].pc = pc]

Return(c, r) ==
  /\ reply' = [to |-> c, is |-> r]
  /\ client' = [client EXCEPT ![c] = Idle]

Use(key) ==
  LET used == Append(RemoveFirst(recent, key), key)
  IN  recent' = IF Len(used) > FlashSize THEN Tail(used) ELSE used

Ask(c) ==
  /\ ~Busy(c)
  /\ IF c = Main THEN contexts # <<>> /\ ~closing ELSE contexts # <<>> \/ closing
  /\ \E q \in Requests :
       client' = [client EXCEPT ![c] = [Idle EXCEPT !.pc = "flash cache", !.request = q]]
  /\ reply' = NONE
  /\ raced' = (raced \/ closing)
  /\ UNCHANGED <<service, services, shutdownOnExit, contexts, closing, requested,
                 references, flashes, recent>>

LookUpFlash(c) ==
  /\ client[c].pc = "flash cache"
  /\ LET key == FlashKey(client[c].request)
     IN  IF key \in Keys(flashes)
         THEN /\ Return(c, Entry(flashes, key).answer)
              /\ flashes' = Touched(flashes, key)
              /\ Use(key)
         ELSE /\ Goto(c, "reference")
              /\ UNCHANGED <<flashes, recent, reply>>
  /\ UNCHANGED <<references, jvmVars>>

\* _get_reference_fluid is called for the flash and again by
\* _get_standard_density once the flash is done.
ReferenceStages == [reference |-> "created", density |-> "density created"]

LookUpReference(c, pc) ==
  /\ client[c].pc = pc
  /\ LET key == client[c].request.model
     IN  IF key \in Keys(references)
         THEN /\ references' = Touched(references, key)
              /\ client' = [client EXCEPT
                              ![c].ref = Entry(references, key).service,
                              ![c].pc = IF pc = "reference" THEN "flash" ELSE "extract"]
              /\ UNCHANGED reply
         ELSE /\ IF Usable
                 THEN /\ client' = [client EXCEPT ![c].ref = service,
                                                  ![c].pc = ReferenceStages[pc]]
                      /\ UNCHANGED reply
                 ELSE Return(c, ERROR)
              /\ UNCHANGED references
  /\ UNCHANGED <<flashes, recent, jvmVars>>

KeepReference(c, pc) ==
  /\ client[c].pc = ReferenceStages[pc]
  /\ references' = Put(references, [key |-> client[c].request.model, service |-> client[c].ref],
                       ReferenceSize)
  /\ Goto(c, IF pc = "reference" THEN "flash" ELSE "extract")
  /\ UNCHANGED <<flashes, recent, reply, jvmVars>>

\* The reference is cloned in its own JVM and flashed by the current one, which
\* takes the number of a foreign object for that of an object of its own: it
\* raises, or leaves the clone unflashed, with the properties of another state.
Flash(c) ==
  /\ client[c].pc = "flash"
  /\ LET ref == client[c].ref
         answers == IF ~Usable \/ ~services[ref].alive THEN {}
                    ELSE IF ref = service THEN {client[c].request}
                    ELSE Requests
     IN  \/ /\ ~Usable \/ ref # service
            /\ Return(c, ERROR)
         \/ /\ \E a \in answers : client' = [client EXCEPT ![c].answer = a, ![c].pc = "density"]
            /\ UNCHANGED reply
  /\ UNCHANGED <<references, flashes, recent, jvmVars>>

\* Mutant: the result is kept before it is validated.
KeepUnvalidated(c) ==
  /\ client[c].pc = "extract"
  /\ LET answer == client[c].answer
         entry == [key |-> FlashKey(client[c].request), answer |-> answer]
     IN  /\ flashes' = Put(flashes, entry, FlashSize)
         /\ Use(entry.key)
         /\ Return(c, IF answer \in Unsolvable THEN ERROR ELSE answer)
  /\ UNCHANGED <<references, jvmVars>>

\* The standard density of a reference is read from its JVM the first time and
\* remembered; a PH result that misses its target enthalpy is not kept.
KeepFlash(c) ==
  /\ client[c].pc = "extract"
  /\ LET answer == client[c].answer
         entry == [key |-> FlashKey(client[c].request), answer |-> answer]
     IN  \/ /\ answer \in Unsolvable \/ ~services[client[c].ref].alive
            /\ Return(c, ERROR)
            /\ UNCHANGED <<flashes, recent>>
         \/ /\ answer \notin Unsolvable
            /\ Return(c, answer)
            /\ flashes' = Put(flashes, entry, FlashSize)
            /\ Use(entry.key)
  /\ UNCHANGED <<references, jvmVars>>

Request(c) ==
  \/ LookUpFlash(c)
  \/ \E pc \in DOMAIN ReferenceStages : LookUpReference(c, pc) \/ KeepReference(c, pc)
  \/ Flash(c)
  \/ KeepFlash(c)

Next ==
  \/ \E kind \in {PY4J, JPYPE} : Enter(kind)
  \/ Exit
  \/ Close
  \/ \E c \in Clients : Ask(c) \/ Request(c)

Spec == Init /\ [][Next]_vars

-----------------------------------------------------------------------------
\* cache_service.py: all caches are cleared when the service shuts down, so
\* that nothing refers to an object of a JVM that is gone.  As long as no
\* request ran during the last shutdown, every cached reference belongs to the
\* current service, whatever contexts were nested and whatever closing one raised.
NoDanglingReference ==
  ~raced /\ ~closing => \A i \in DOMAIN references : references[i].service = service

Fits(cache, size) == Len(cache) <= size /\ Cardinality(Keys(cache)) = Len(cache)

\* LRUCache: a cache has at most one entry for a key and never more entries than
\* its size, and what is evicted is what was not asked for the longest.
KeepsTheMostRecent ==
  /\ Fits(references, ReferenceSize)
  /\ Fits(flashes, FlashSize)
  /\ recent = [i \in DOMAIN flashes |-> flashes[i].key]

Abstract == INSTANCE ThermoService WITH
  asked     <- [c \in Clients |-> client[c].request],
  up        <- Usable,
  disturbed <- raced

\* The caches and the contexts are invisible to the users of the service: it
\* implements what the fluid service promises.
ImplementsThermoService == Abstract!Spec

=============================================================================
