-------------------------- MODULE ChecksumContext --------------------------
(***************************************************************************)
(* ChecksumServiceContext of include/checksum.hpp: the registry of         *)
(* checksum services, shared by all threads.  Every call goes through      *)
(* instance(), which registers the four built-in services again each time, *)
(* one lock at a time, before the caller gets to the registry.  The        *)
(* construction of the static object itself is left out: the language      *)
(* makes it happen once, before any of these steps.                        *)
(***************************************************************************)
EXTENDS Integers, Sequences

CONSTANTS Threads,     \* the threads of the program
          Algorithms,  \* the names that users register and look up
          Types,       \* the <Input, Output> that services and callers have
          BuiltInType, \* of these, that of each built-in service
          MaxCalls,    \* bound on the calls of each thread
          None         \* no thread

BuiltIns == <<"CRC16", "CRC32", "SSE_BIN", "SZSE_BIN">>

Names == Algorithms \cup {BuiltIns[i] : i \in DOMAIN BuiltIns}

ASSUME ContextAssumption ==
  /\ None \notin Threads
  /\ DOMAIN BuiltInType = {BuiltIns[i] : i \in DOMAIN BuiltIns}
  /\ \A name \in DOMAIN BuiltInType : BuiltInType[name] \in Types
  /\ MaxCalls \in Nat

(* A service object: its algorithm(), its type, and the thread and call    *)
(* that made it.                                                           *)
Service(name, type, owner) == [name |-> name, type |-> type, owner |-> owner]

Services == [name : Names, type : Types, owner : (Threads \cup {None}) \X Nat]

Register(service) == [op |-> "register", name |-> service.name, service |-> service]
Get(name, type)   == [op |-> "get", name |-> name, type |-> type]

BuiltIn(name) == Service(name, BuiltInType[name], <<None, 0>>)

VARIABLES services,  \* services_
          mu,        \* the thread that holds mu_, or None
          pc,        \* where each thread is in its operation
          todo,      \* the operations of its call that it has still to do
          found,     \* what it found in services_ under the lock
          calls,     \* how many calls each thread has begun
          answer,    \* what the last get() of each thread returned
          accepted   \* history: the services whose registration returned true

vars == <<services, mu, pc, todo, found, calls, answer, accepted>>

Absent == <<>>   \* nullptr; what is there is <<service>>

Init ==
  /\ services = <<>>
  /\ mu = None
  /\ pc = [t \in Threads |-> "idle"]
  /\ todo = [t \in Threads |-> <<>>]
  /\ found = [t \in Threads |-> FALSE]
  /\ calls = [t \in Threads |-> 0]
  /\ answer = [t \in Threads |-> [request |-> Absent, service |-> Absent]]
  /\ accepted = {}

(* Wrong variant: the third service not registered.                        *)
InstanceWithoutSse ==
  [i \in 1 .. 3 |-> Register(BuiltIn(BuiltIns[IF i = 3 THEN 4 ELSE i]))]

(* What instance() does before it returns the context.                     *)
Instance == [i \in DOMAIN BuiltIns |-> Register(BuiltIn(BuiltIns[i]))]

(* A thread calls instance().get(..) or instance().registerService(..).    *)
Begin(t, request) ==
  /\ pc[t] = "idle"
  /\ calls[t] < MaxCalls
  /\ calls' = [calls EXCEPT ![t] = @ + 1]
  /\ todo' = [todo EXCEPT ![t] = Append(Instance, request)]
  /\ pc' = [pc EXCEPT ![t] = "lock"]
  /\ UNCHANGED <<services, mu, found, answer, accepted>>

(* Wrong variant: no lock_guard.                                           *)
LockNothing(t) ==
  /\ pc[t] = "lock"
  /\ mu' = t
  /\ pc' = [pc EXCEPT ![t] = "find"]
  /\ UNCHANGED <<services, todo, found, calls, answer, accepted>>

Lock(t) ==
  /\ pc[t] = "lock"
  /\ mu = None
  /\ mu' = t
  /\ pc' = [pc EXCEPT ![t] = "find"]
  /\ UNCHANGED <<services, todo, found, calls, answer, accepted>>

(* services_.count(algo), services_.find(algo).                            *)
Find(t) ==
  /\ pc[t] = "find"
  /\ found' = [found EXCEPT ![t] = Head(todo[t]).name \in DOMAIN services]
  /\ pc' = [pc EXCEPT ![t] = "act"]
  /\ UNCHANGED <<services, mu, todo, calls, answer, accepted>>

(* Wrong variant: a plain lock() and no unlock() before the thread returns *)
(* from its call.                                                          *)
ReturnHolding(t) ==
  /\ mu' = IF Len(todo[t]) = 1 THEN t ELSE None
  /\ todo' = [todo EXCEPT ![t] = Tail(@)]
  /\ pc' = [pc EXCEPT ![t] = IF Len(todo[t]) = 1 THEN "idle" ELSE "lock"]

(* The operation returns: the lock_guard goes out of scope, and the thread *)
(* goes on to the next operation of its call.                              *)
Return(t) ==
  /\ mu' = None
  /\ todo' = [todo EXCEPT ![t] = Tail(@)]
  /\ pc' = [pc EXCEPT ![t] = IF Len(todo[t]) = 1 THEN "idle" ELSE "lock"]

(* `services_[algo] = service` for a new name.                             *)
Enter(service) ==
  services' = [name \in DOMAIN services \cup {service.name} |->
                 IF name = service.name THEN service ELSE services[name]]

RegisterService(t) ==
  LET service == Head(todo[t]).service
  IN  /\ pc[t] = "act"
      /\ Head(todo[t]).op = "register"
      /\ IF found[t]
           THEN UNCHANGED <<services, accepted>>
           ELSE /\ Enter(service)
                /\ accepted' = accepted \cup {service}
      /\ Return(t)
      /\ UNCHANGED <<found, calls, answer>>

(* dynamic_pointer_cast gives nullptr for a service of another type.       *)
GetService(t) ==
  LET request == Head(todo[t])
  IN  /\ pc[t] = "act"
      /\ request.op = "get"
      /\ answer' = [answer EXCEPT ![t] =
           [request |-> <<request>>,
            service |-> IF found[t] /\ services[request.name].type = request.type
                          THEN <<services[request.name]>> ELSE Absent]]
      /\ Return(t)
      /\ UNCHANGED <<services, found, calls, accepted>>

Proceed(t) == Lock(t) \/ Find(t) \/ RegisterService(t) \/ GetService(t)

Next ==
  \E t \in Threads :
    \/ \E name \in Names, type \in Types : Begin(t, Get(name, type))
    \/ \E name \in Names, type \in Types :
         Begin(t, Register(Service(name, type, <<t, calls[t]>>)))
    \/ Proceed(t)

(* A thread inside a call goes on whenever it can.                         *)
Spec == Init /\ [][Next]_vars /\ \A t \in Threads : WF_vars(Proceed(t))

-----------------------------------------------------------------------------
(* Type correctness: the lock is held exactly by the thread that is        *)
(* between lock and return.                                                *)
TypeOK ==
  /\ DOMAIN services \subseteq Names
  /\ \A name \in DOMAIN services :
       services[name] \in Services /\ services[name].name = name
  /\ pc \in [Threads -> {"idle", "lock", "find", "act"}]
  /\ \A t \in Threads : pc[t] \in {"find", "act"} <=> mu = t
  /\ accepted \subseteq Services

(* Whoever asks for a built-in service by its name and type gets it, even  *)
(* as the very first caller and whatever users try to register under that  *)
(* name: no encode() ever takes its `service == nullptr` branch.           *)
BuiltInsAnswer ==
  \A t \in Threads, name \in DOMAIN BuiltInType :
    answer[t].request = <<Get(name, BuiltInType[name])>> =>
      answer[t].service = <<BuiltIn(name)>>

(* A registration that returned true stays: the service is in the registry *)
(* from then on, and no other registration of its name returned true.      *)
AcceptedStay ==
  \A s \in accepted : s.name \in DOMAIN services /\ services[s.name] = s

(* To its callers the context is a registry without a lock that has the    *)
(* built-in services from the start: that every instance() call registers  *)
(* them again, in four critical sections between which others register and *)
(* look up, cannot be seen, and each call takes effect at one instant.     *)
Offered ==
  [name \in DOMAIN BuiltInType \cup DOMAIN services |->
     IF name \in DOMAIN BuiltInType THEN BuiltIn(name) ELSE services[name]]

Pending ==
  [t \in Threads |->
     IF pc[t] = "idle" THEN Absent ELSE <<todo[t][Len(todo[t])]>>]

Registry ==
  INSTANCE ServiceRegistry WITH
    Services <- {Service(name, type, <<t, n>>) :
                   name \in Names, type \in Types, t \in Threads, n \in 0 .. MaxCalls - 1},
    Lookups <- {Get(name, type) : name \in Names, type \in Types},
    BuiltIns <- [name \in DOMAIN BuiltInType |-> BuiltIn(name)],
    services <- Offered,
    pending  <- Pending,
    accepted <- accepted \cup {BuiltIn(name) : name \in DOMAIN BuiltInType}

ImplementsRegistry == Registry!Spec

(* Every call returns, whatever the other threads do.                      *)
CallsReturn == \A t \in Threads : pc[t] # "idle" ~> pc[t] = "idle"
=============================================================================
