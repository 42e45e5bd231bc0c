------------------------ MODULE ChecksumContextProofs ------------------------
(***************************************************************************)
(* Type correctness of the checksum context, that a registration is final, *)
(* that built-in services are always found, and that the context implements*)
(* a registry without a lock, for any number of threads, names, types and  *)
(* calls.                                                                  *)
(***************************************************************************)
EXTENDS ChecksumContext, SequenceTheorems, TLAPS

Requests ==
  {Register(s) : s \in Services} \cup {Get(n, y) : n \in Names, y \in Types}

(* The shape of the variables that TypeOK leaves out.                      *)
Shape ==
  /\ todo \in [Threads -> Seq(Requests)]
  /\ found \in [Threads -> BOOLEAN]
  /\ calls \in [Threads -> Nat]
  /\ DOMAIN answer = Threads

(* The names that instance() has dealt with when n operations of a call    *)
(* are left.                                                               *)
Registered(n) == \A j \in 1 .. 5 - n : BuiltIns[j] \in DOMAIN services

(* A thread inside a call has the rest of instance() before it and then    *)
(* its request, and what is behind it is in the registry.                  *)
Position(t) ==
  pc[t] # "idle" =>
    /\ Len(todo[t]) \in 1 .. 5
    /\ \A i \in 1 .. Len(todo[t]) - 1 : todo[t][i] = Instance[i + 5 - Len(todo[t])]
    /\ Registered(Len(todo[t]))

(* What a thread found under the lock is still so.                         *)
FoundHolds(t) ==
  pc[t] = "act" => (found[t] <=> todo[t][1].name \in DOMAIN services)

(* The names of the built-in services are never given to others.           *)
BuiltInsKeepNames ==
  \A name \in DOMAIN BuiltInType \cap DOMAIN services :
    services[name] = BuiltIn(name)

IInv ==
  /\ TypeOK
  /\ Shape
  /\ \A t \in Threads : Position(t) /\ FoundHolds(t)
  /\ BuiltInsKeepNames
  /\ AcceptedStay
  /\ BuiltInsAnswer

-----------------------------------------------------------------------------
(* The built-in services and the operations of instance().                 *)
LEMMA BuiltInServices ==
  ASSUME NEW name \in DOMAIN BuiltInType
  PROVE  /\ BuiltIn(name) \in Services
         /\ BuiltIn(name).name = name
         /\ BuiltIn(name).type = BuiltInType[name]
BY ContextAssumption DEF BuiltIn, Service, Services, Names

LEMMA RegisterRequests ==
  ASSUME NEW s \in Services
  PROVE  /\ Register(s) \in Requests
         /\ Register(s).op = "register"
         /\ Register(s).name = s.name
         /\ Register(s).service = s
BY DEF Requests, Register

LEMMA InstanceOperations ==
  /\ Instance \in Seq(Requests)
  /\ Len(Instance) = 4
  /\ \A i \in 1 .. 4 : /\ BuiltIns[i] \in DOMAIN BuiltInType
                       /\ Instance[i] = Register(BuiltIn(BuiltIns[i]))
<1>1. DOMAIN BuiltIns = 1 .. 4
  BY DEF BuiltIns
<1>2. \A i \in 1 .. 4 : BuiltIns[i] \in DOMAIN BuiltInType
  BY <1>1, ContextAssumption
<1>3. Instance = [i \in 1 .. 4 |-> Register(BuiltIn(BuiltIns[i]))]
  BY <1>1 DEF Instance
<1>4. \A i \in 1 .. 4 : Register(BuiltIn(BuiltIns[i])) \in Requests
  BY <1>2, BuiltInServices, RegisterRequests
<1>5. Instance \in [1 .. 4 -> Requests]
  BY <1>3, <1>4
<1> QED
  BY <1>2, <1>3, <1>5

(* A request to register carries a service under its own name.             *)
LEMMA RequestsToRegister ==
  ASSUME NEW r \in Requests, r.op = "register"
  PROVE  r.service \in Services /\ r.name = r.service.name /\ r.name \in Names
<1>1. ~ \E n \in Names, y \in Types : r = Get(n, y)
  BY DEF Get
<1>2. PICK s \in Services : r = Register(s)
  BY <1>1 DEF Requests
<1> QED
  BY <1>2 DEF Register, Services

(* Of the n operations left in a call, all but the last are those of       *)
(* instance().                                                             *)
LEMMA OperationsLeft ==
  ASSUME NEW n \in 1 .. 5
  PROVE  /\ n > 1 => 6 - n \in 1 .. 4
         /\ n > 1 \/ n = 1
OBVIOUS

(* What the first operation of a thread inside a call is.                  *)
LEMMA FirstOperation ==
  ASSUME IInv, NEW t \in Threads, pc[t] # "idle"
  PROVE  /\ todo[t] \in Seq(Requests)
         /\ todo[t] # <<>>
         /\ Len(todo[t]) \in 1 .. 5
         /\ Head(todo[t]) = todo[t][1]
         /\ Head(todo[t]) \in Requests
         /\ Len(todo[t]) > 1 => Head(todo[t]) = Instance[6 - Len(todo[t])]
<1>1. todo[t] \in Seq(Requests)
  BY DEF IInv, Shape
<1>2. Position(t)
  BY DEF IInv
<1>3. Len(todo[t]) \in 1 .. 5
  BY <1>2 DEF Position
<1>4. todo[t] # <<>>
  BY <1>3
<1>5. Head(todo[t]) = todo[t][1] /\ Head(todo[t]) \in Requests
  BY <1>1, <1>4, HeadTailProperties
<1>6. ASSUME Len(todo[t]) > 1 PROVE todo[t][1] = Instance[6 - Len(todo[t])]
  <2>1. 1 \in 1 .. Len(todo[t]) - 1 /\ 1 + 5 - Len(todo[t]) = 6 - Len(todo[t])
    BY <1>3, <1>6
  <2>2. todo[t][1] = Instance[1 + 5 - Len(todo[t])]
    BY <1>2, <2>1 DEF Position
  <2> QED
    BY <2>1, <2>2
<1> QED
  BY <1>1, <1>3, <1>4, <1>5, <1>6

-----------------------------------------------------------------------------
(* A thread that begins a call has all of instance() before it.            *)
LEMMA BeginPreserves ==
  ASSUME IInv, NEW t \in Threads, NEW request \in Requests, Begin(t, request)
  PROVE  IInv'
<1> DEFINE operations == Append(Instance, request)
<1>1. /\ operations \in Seq(Requests)
      /\ Len(operations) = 5
      /\ \A i \in 1 .. 4 : operations[i] = Instance[i]
  <2>1. PICK ops \in Seq(Requests) : ops = Instance
    BY InstanceOperations
  <2>2. Len(ops) = 4
    BY <2>1, InstanceOperations
  <2>3. /\ Append(ops, request) \in Seq(Requests)
        /\ Len(Append(ops, request)) = Len(ops) + 1
        /\ \A i \in 1 .. Len(ops) : Append(ops, request)[i] = ops[i]
    BY AppendProperties
  <2> QED
    BY <2>1, <2>2, <2>3
<1> HIDE DEF operations
<1>2. /\ todo' = [todo EXCEPT ![t] = operations]
      /\ pc' = [pc EXCEPT ![t] = "lock"]
      /\ pc[t] = "idle"
      /\ calls' = [calls EXCEPT ![t] = @ + 1]
      /\ UNCHANGED <<services, mu, found, answer, accepted>>
  BY DEF Begin, operations
<1>3. TypeOK /\ Shape
  BY DEF IInv
<1>4. TypeOK'
  BY <1>2, <1>3 DEF TypeOK
<1>5. Shape'
  BY <1>1, <1>2, <1>3 DEF Shape
<1>6. ASSUME NEW u \in Threads PROVE Position(u)'
  <2>1. CASE u = t
    <3>1. todo'[u] = operations
      BY <1>2, <1>3, <2>1 DEF Shape
    <3>2. /\ Len(todo[u])' = 5
          /\ \A i \in 1 .. 4 : (todo[u])'[i] = Instance[i]
      BY <1>1, <3>1
    <3>3. \A i \in 1 .. Len(todo[u])' - 1 :
            (todo[u])'[i] = Instance[i + 5 - Len(todo[u])']
      BY <3>2
    <3>4. Registered(Len(todo[u]))'
      BY <3>2 DEF Registered
    <3>5. Instance' = Instance
      BY DEF Instance
    <3> QED
      BY <3>2, <3>3, <3>4, <3>5 DEF Position
  <2>2. CASE u # t
    <3>1. todo'[u] = todo[u] /\ pc'[u] = pc[u]
      BY <1>2, <1>3, <2>2 DEF Shape, TypeOK
    <3>2. Position(u)
      BY DEF IInv
    <3> QED
      BY <1>2, <3>1, <3>2 DEF Position, Registered
  <2> QED
    BY <2>1, <2>2
<1>7. ASSUME NEW u \in Threads PROVE FoundHolds(u)'
  <2>1. pc'[u] = "act" => u # t /\ pc[u] = "act" /\ todo'[u] = todo[u]
    BY <1>2, <1>3 DEF Shape, TypeOK
  <2>2. FoundHolds(u)
    BY DEF IInv
  <2> QED
    BY <1>2, <2>1, <2>2 DEF FoundHolds
<1>8. BuiltInsKeepNames' /\ AcceptedStay' /\ BuiltInsAnswer'
  BY <1>2 DEF IInv, BuiltInsKeepNames, AcceptedStay, BuiltInsAnswer
<1> QED
  BY <1>4, <1>5, <1>6, <1>7, <1>8 DEF IInv

LEMMA LockPreserves ==
  ASSUME IInv, NEW t \in Threads, Lock(t)
  PROVE  IInv'
<1>1. /\ pc' = [pc EXCEPT ![t] = "find"]
      /\ pc[t] = "lock"
      /\ mu = None
      /\ mu' = t
      /\ UNCHANGED <<services, todo, found, calls, answer, accepted>>
  BY DEF Lock
<1>2. TypeOK /\ Shape
  BY DEF IInv
<1>3. TypeOK'
  <2>1. \A u \in Threads : pc'[u] \in {"find", "act"} <=> mu' = u
    BY <1>1, <1>2, ContextAssumption DEF TypeOK
  <2>2. pc' \in [Threads -> {"idle", "lock", "find", "act"}]
    BY <1>1, <1>2 DEF TypeOK
  <2> QED
    BY <1>1, <1>2, <2>1, <2>2 DEF TypeOK
<1>4. Shape'
  BY <1>1, <1>2 DEF Shape
<1>5. ASSUME NEW u \in Threads PROVE Position(u)' /\ FoundHolds(u)'
  <2>1. /\ pc[u] = "idle" => pc'[u] = "idle"
        /\ pc'[u] = "act" => pc[u] = "act"
    BY <1>1, <1>2 DEF TypeOK
  <2>2. Position(u) /\ FoundHolds(u)
    BY DEF IInv
  <2>3. pc'[u] = "idle" \/ pc[u] # "idle"
    BY <2>1
  <2> QED
    BY <1>1, <2>1, <2>2, <2>3 DEF Position, FoundHolds, Registered
<1>6. BuiltInsKeepNames' /\ AcceptedStay' /\ BuiltInsAnswer'
  BY <1>1 DEF IInv, BuiltInsKeepNames, AcceptedStay, BuiltInsAnswer
<1> QED
  BY <1>3, <1>4, <1>5, <1>6 DEF IInv

LEMMA FindPreserves ==
  ASSUME IInv, NEW t \in Threads, Find(t)
  PROVE  IInv'
<1> DEFINE there == Head(todo[t]).name \in DOMAIN services
<1>1. /\ pc' = [pc EXCEPT ![t] = "act"]
      /\ pc[t] = "find"
      /\ found' = [found EXCEPT ![t] = there]
      /\ UNCHANGED <<services, mu, todo, calls, answer, accepted>>
  BY DEF Find
<1>2. TypeOK /\ Shape
  BY DEF IInv
<1>3. TypeOK'
  BY <1>1, <1>2 DEF TypeOK
<1>4. found' \in [Threads -> BOOLEAN]
  BY <1>1, <1>2 DEF Shape
<1>5. Shape'
  BY <1>1, <1>2, <1>4 DEF Shape
<1>6. ASSUME NEW u \in Threads PROVE Position(u)'
  <2>1. pc'[u] = "idle" \/ pc[u] # "idle"
    BY <1>1, <1>2 DEF TypeOK
  <2>2. Position(u)
    BY DEF IInv
  <2> QED
    BY <1>1, <2>1, <2>2 DEF Position, Registered
<1>7. ASSUME NEW u \in Threads PROVE FoundHolds(u)'
  <2>1. CASE u = t
    <3>1. found'[u] = there
      BY <1>1, <1>2, <2>1 DEF Shape
    <3>2. Head(todo[t]) = todo[t][1]
      BY <1>1, FirstOperation
    <3> QED
      BY <1>1, <2>1, <3>1, <3>2 DEF FoundHolds
  <2>2. CASE u # t
    <3>1. found'[u] = found[u] /\ pc'[u] = pc[u]
      BY <1>1, <1>2, <2>2 DEF Shape, TypeOK
    <3>2. FoundHolds(u)
      BY DEF IInv
    <3> QED
      BY <1>1, <3>1, <3>2 DEF FoundHolds
  <2> QED
    BY <2>1, <2>2
<1>8. BuiltInsKeepNames' /\ AcceptedStay' /\ BuiltInsAnswer'
  BY <1>1 DEF IInv, BuiltInsKeepNames, AcceptedStay, BuiltInsAnswer
<1> QED
  BY <1>3, <1>5, <1>6, <1>7, <1>8 DEF IInv

-----------------------------------------------------------------------------
(* An operation that returns, having entered its name or found it there,   *)
(* leaves every thread where the invariant says.                           *)
LEMMA ReturnAdvances ==
  ASSUME IInv, NEW t \in Threads, pc[t] = "act", Return(t),
         DOMAIN services \subseteq DOMAIN services',
         Len(todo[t]) > 1 => Head(todo[t]).name \in DOMAIN services',
         UNCHANGED found
  PROVE  /\ todo' \in [Threads -> Seq(Requests)]
         /\ pc' \in [Threads -> {"idle", "lock", "find", "act"}]
         /\ \A u \in Threads : pc'[u] \in {"find", "act"} <=> mu' = u
         /\ \A u \in Threads : (Position(u) /\ FoundHolds(u))'
<1> DEFINE rest == Tail(todo[t])
<1>0. TypeOK /\ Shape
  BY DEF IInv
<1>1. /\ mu' = None
      /\ todo' = [todo EXCEPT ![t] = rest]
      /\ pc' = [pc EXCEPT ![t] = IF Len(todo[t]) = 1 THEN "idle" ELSE "lock"]
  BY DEF Return
<1>2. /\ todo[t] \in Seq(Requests)
      /\ todo[t] # <<>>
      /\ Len(todo[t]) \in 1 .. 5
  BY FirstOperation
<1>3. /\ rest \in Seq(Requests)
      /\ Len(rest) = Len(todo[t]) - 1
      /\ \A i \in 1 .. Len(rest) : rest[i] = todo[t][i + 1]
  BY <1>2, HeadTailProperties
<1> HIDE DEF rest
<1>4. todo' \in [Threads -> Seq(Requests)]
  BY <1>0, <1>1, <1>3 DEF Shape
<1>5. pc' \in [Threads -> {"idle", "lock", "find", "act"}]
  BY <1>0, <1>1 DEF TypeOK
<1>6. mu = t
  BY <1>0 DEF TypeOK
<1>7. ASSUME NEW u \in Threads PROVE pc'[u] \notin {"find", "act"}
  BY <1>0, <1>1, <1>6 DEF TypeOK
<1>8. \A u \in Threads : pc'[u] \in {"find", "act"} <=> mu' = u
  BY <1>1, <1>7, ContextAssumption
<1>9. \A u \in Threads : FoundHolds(u)'
  BY <1>7 DEF FoundHolds
<1>10. ASSUME NEW u \in Threads, u # t PROVE Position(u)'
  <2>1. todo'[u] = todo[u] /\ pc'[u] = pc[u]
    BY <1>0, <1>1, <1>10 DEF Shape, TypeOK
  <2>2. Position(u)
    BY DEF IInv
  <2>3. Instance' = Instance
    BY DEF Instance
  <2> QED
    BY <2>1, <2>2, <2>3 DEF Position, Registered
<1>11. Position(t)'
  <2>1. SUFFICES ASSUME pc'[t] # "idle"
                 PROVE  Position(t)'
    BY DEF Position
  <2>more. Len(todo[t]) # 1
    BY <1>0, <1>1, <2>1 DEF TypeOK
  <2>2. Len(todo[t]) \in 2 .. 5
    BY <1>2, <2>more
  <2>3. todo'[t] = rest
    BY <1>0, <1>1 DEF Shape
  <2>4. Len(rest) \in 1 .. 4 /\ Len(todo[t]) = Len(rest) + 1
    BY <1>3, <2>2
  <2>5. Position(t)
    BY DEF IInv
  <2>6. ASSUME NEW i \in 1 .. Len(rest) - 1
        PROVE  rest[i] = Instance[i + 5 - Len(rest)]
    <3>1. i + 1 \in 1 .. Len(todo[t]) - 1 /\ i \in 1 .. Len(rest)
      BY <2>4
    <3>2. (i + 1) + 5 - Len(todo[t]) = i + 5 - Len(rest)
      BY <2>4
    <3>3. todo[t][i + 1] = Instance[(i + 1) + 5 - Len(todo[t])]
      BY <2>5, <3>1 DEF Position
    <3> QED
      BY <1>3, <3>1, <3>2, <3>3
  <2>7. ASSUME NEW j \in 1 .. 5 - Len(rest)
        PROVE  BuiltIns[j] \in DOMAIN services'
    <3>1. CASE j \in 1 .. 5 - Len(todo[t])
      BY <2>5, <3>1 DEF Position, Registered
    <3>2. CASE j = 6 - Len(todo[t])
      <4>0. Len(todo[t]) > 1 /\ 6 - Len(todo[t]) \in 1 .. 4
        BY <1>2, <2>more, OperationsLeft
      <4>1. j \in 1 .. 4
        BY <3>2, <4>0
      <4>2. Head(todo[t]) = Register(BuiltIn(BuiltIns[j]))
        BY <3>2, <4>0, <4>1, FirstOperation, InstanceOperations
      <4>3. Head(todo[t]).name = BuiltIns[j]
        BY <4>1, <4>2, InstanceOperations, BuiltInServices, RegisterRequests
      <4>4. Head(todo[t]).name \in DOMAIN services'
        BY <4>0
      <4> QED
        BY <4>3, <4>4
    <3>3. j \in 1 .. 5 - Len(todo[t]) \/ j = 6 - Len(todo[t])
      BY <2>2, <2>4
    <3> QED
      BY <3>1, <3>2, <3>3
  <2>8. Instance' = Instance
    BY DEF Instance
  <2>9. Registered(Len(todo[t]))'
    BY <2>3, <2>7 DEF Registered
  <2>10. /\ Len(todo[t])' \in 1 .. 5
         /\ \A i \in 1 .. Len(todo[t])' - 1 :
               (todo[t])'[i] = Instance[i + 5 - Len(todo[t])']
    BY <2>3, <2>4, <2>6
  <2> QED
    BY <2>8, <2>9, <2>10 DEF Position
<1> QED
  BY <1>4, <1>5, <1>8, <1>9, <1>10, <1>11

-----------------------------------------------------------------------------
(* A service that instance() registers is a built-in one under its own     *)
(* name; by the time the request of the call has its turn, all of them are *)
(* there.                                                                  *)
LEMMA OperationsOfInstance ==
  ASSUME IInv, NEW t \in Threads, pc[t] # "idle", Len(todo[t]) > 1
  PROVE  \E name \in DOMAIN BuiltInType :
           Head(todo[t]) = Register(BuiltIn(name))
<1>1. Len(todo[t]) \in 1 .. 5
  BY FirstOperation
<1>2. PICK n \in 1 .. 4 : n = 6 - Len(todo[t])
  BY <1>1, OperationsLeft
<1>3. Head(todo[t]) = Instance[n]
  BY <1>2, FirstOperation
<1>4. /\ BuiltIns[n] \in DOMAIN BuiltInType
      /\ Instance[n] = Register(BuiltIn(BuiltIns[n]))
  BY InstanceOperations
<1> QED
  BY <1>3, <1>4

LEMMA RequestAfterInstance ==
  ASSUME IInv, NEW t \in Threads, pc[t] # "idle", ~ Len(todo[t]) > 1
  PROVE  DOMAIN BuiltInType \subseteq DOMAIN services
<1>1. Len(todo[t]) \in 1 .. 5
  BY FirstOperation
<1>2. Len(todo[t]) = 1
  BY <1>1, OperationsLeft
<1>3. Registered(1)
  BY <1>2 DEF IInv, Position
<1>4. \A j \in 1 .. 4 : BuiltIns[j] \in DOMAIN services
  BY <1>3 DEF Registered
<1>5. DOMAIN BuiltIns = 1 .. 4
  BY DEF BuiltIns
<1> QED
  BY <1>4, <1>5, ContextAssumption

(* The service that a thread is about to enter in the registry.            *)
LEMMA ServiceToRegister ==
  ASSUME IInv, NEW t \in Threads, pc[t] = "act",
         Head(todo[t]).op = "register",
         NEW service, service = Head(todo[t]).service
  PROVE  /\ service \in Services
         /\ service.name \in Names
         /\ Head(todo[t]).name = service.name
         /\ found[t] <=> service.name \in DOMAIN services
         /\ ~ found[t] /\ service.name \in DOMAIN BuiltInType =>
              service = BuiltIn(service.name)
<1>1. Head(todo[t]) \in Requests /\ Head(todo[t]) = todo[t][1]
  BY FirstOperation
<1>2. PICK r \in Requests : r = Head(todo[t])
  BY <1>1
<1>3. service \in Services /\ r.name = service.name /\ r.name \in Names
  BY <1>2, RequestsToRegister
<1>4. found[t] <=> service.name \in DOMAIN services
  BY <1>1, <1>2, <1>3 DEF IInv, FoundHolds
<1>5. ASSUME ~ found[t], service.name \in DOMAIN BuiltInType
      PROVE  service = BuiltIn(service.name)
  <2>1. Len(todo[t]) > 1
    BY <1>4, <1>5, RequestAfterInstance
  <2>2. PICK name \in DOMAIN BuiltInType : r = Register(BuiltIn(name))
    BY <1>2, <2>1, OperationsOfInstance
  <2>3. service = BuiltIn(name)
    BY <1>2, <2>2, BuiltInServices, RegisterRequests
  <2> QED
    BY <2>3, BuiltInServices
<1> QED
  BY <1>2, <1>3, <1>4, <1>5

LEMMA RegisterServicePreserves ==
  ASSUME IInv, NEW t \in Threads, RegisterService(t)
  PROVE  IInv'
<1>1. PICK service : service = Head(todo[t]).service
  OBVIOUS
<1>2. /\ pc[t] = "act"
      /\ Head(todo[t]).op = "register"
      /\ Return(t)
      /\ UNCHANGED <<found, calls, answer>>
  BY DEF RegisterService
<1>3. found[t] => UNCHANGED <<services, accepted>>
  BY DEF RegisterService
<1>4. ~ found[t] => Enter(service) /\ accepted' = accepted \cup {service}
  BY <1>1 DEF RegisterService
<1>5. /\ service \in Services
      /\ service.name \in Names
      /\ Head(todo[t]).name = service.name
      /\ found[t] <=> service.name \in DOMAIN services
      /\ ~ found[t] /\ service.name \in DOMAIN BuiltInType =>
           service = BuiltIn(service.name)
  BY <1>1, <1>2, ServiceToRegister
<1>6. TypeOK /\ Shape /\ BuiltInsKeepNames /\ AcceptedStay /\ BuiltInsAnswer
  BY DEF IInv
<1>7. /\ DOMAIN services' = DOMAIN services \cup {service.name}
      /\ \A name \in DOMAIN services : services'[name] = services[name]
      /\ ~ found[t] => services'[service.name] = service
  <2>1. CASE found[t]
    BY <1>3, <1>5, <2>1
  <2>2. CASE ~ found[t]
    BY <1>4, <1>5, <2>2 DEF Enter
  <2> QED
    BY <2>1, <2>2
<1>8. /\ todo' \in [Threads -> Seq(Requests)]
      /\ pc' \in [Threads -> {"idle", "lock", "find", "act"}]
      /\ \A u \in Threads : pc'[u] \in {"find", "act"} <=> mu' = u
      /\ \A u \in Threads : (Position(u) /\ FoundHolds(u))'
  <2>1. /\ DOMAIN services \subseteq DOMAIN services'
        /\ Head(todo[t]).name \in DOMAIN services'
    BY <1>5, <1>7
  <2> QED
    BY <1>2, <2>1, ReturnAdvances
<1>9. ASSUME NEW name \in DOMAIN services'
      PROVE  \/ name \in DOMAIN services /\ services'[name] = services[name]
             \/ ~ found[t] /\ name = service.name /\ services'[name] = service
  BY <1>5, <1>7
<1>10. TypeOK'
  <2>1. DOMAIN services' \subseteq Names
    BY <1>5, <1>6, <1>7 DEF TypeOK
  <2>2. \A name \in DOMAIN services' :
          services'[name] \in Services /\ services'[name].name = name
    BY <1>5, <1>6, <1>9 DEF TypeOK
  <2>3. accepted' \subseteq Services
    BY <1>3, <1>4, <1>5, <1>6 DEF TypeOK
  <2> QED
    BY <1>8, <2>1, <2>2, <2>3 DEF TypeOK
<1>11. Shape'
  BY <1>2, <1>6, <1>8 DEF Shape
<1>12. BuiltInsKeepNames'
  <2>1. SUFFICES ASSUME NEW name \in DOMAIN BuiltInType, name \in DOMAIN services'
                 PROVE  services'[name] = BuiltIn(name)
    BY DEF BuiltInsKeepNames, BuiltIn, Service
  <2> QED
    BY <1>5, <1>6, <1>9, <2>1 DEF BuiltInsKeepNames
<1>13. AcceptedStay'
  <2>1. SUFFICES ASSUME NEW s \in accepted'
                 PROVE  s.name \in DOMAIN services' /\ services'[s.name] = s
    BY DEF AcceptedStay
  <2>2. s \in accepted \/ (~ found[t] /\ s = service)
    BY <1>3, <1>4
  <2> QED
    BY <1>6, <1>7, <2>2 DEF AcceptedStay
<1>14. BuiltInsAnswer'
  BY <1>2, <1>6 DEF BuiltInsAnswer
<1> QED
  BY <1>8, <1>10, <1>11, <1>12, <1>13, <1>14 DEF IInv

-----------------------------------------------------------------------------
(* A get() comes after all of instance(), so it finds the built-in         *)
(* services.                                                               *)
LEMMA GetServicePreserves ==
  ASSUME IInv, NEW t \in Threads, GetService(t)
  PROVE  IInv'
<1>1. PICK request : request = Head(todo[t])
  OBVIOUS
<1> DEFINE service == IF found[t] /\ services[request.name].type = request.type
                        THEN <<services[request.name]>> ELSE Absent
<1>2. /\ pc[t] = "act"
      /\ request.op = "get"
      /\ Return(t)
      /\ UNCHANGED <<services, found, calls, accepted>>
  BY <1>1 DEF GetService
<1>3. answer' = [answer EXCEPT ![t] = [request |-> <<request>>, service |-> service]]
  BY <1>1 DEF GetService
<1>4. TypeOK /\ Shape /\ BuiltInsKeepNames /\ AcceptedStay /\ BuiltInsAnswer
  BY DEF IInv
<1>5. ~ Len(todo[t]) > 1
  <2>1. SUFFICES ASSUME Len(todo[t]) > 1 PROVE FALSE
    OBVIOUS
  <2>2. PICK name \in DOMAIN BuiltInType : request = Register(BuiltIn(name))
    BY <1>1, <1>2, <2>1, OperationsOfInstance
  <2> QED
    BY <1>2, <2>2, BuiltInServices, RegisterRequests
<1>6. /\ todo' \in [Threads -> Seq(Requests)]
      /\ pc' \in [Threads -> {"idle", "lock", "find", "act"}]
      /\ \A u \in Threads : pc'[u] \in {"find", "act"} <=> mu' = u
      /\ \A u \in Threads : (Position(u) /\ FoundHolds(u))'
  BY <1>2, <1>5, ReturnAdvances
<1>7. DOMAIN BuiltInType \subseteq DOMAIN services
  BY <1>2, <1>5, RequestAfterInstance
<1>8. found[t] <=> request.name \in DOMAIN services
  BY <1>1, <1>2, FirstOperation DEF IInv, FoundHolds
<1>9. TypeOK'
  BY <1>2, <1>4, <1>6 DEF TypeOK
<1>10. Shape'
  BY <1>2, <1>3, <1>4, <1>6 DEF Shape
<1>11. BuiltInsKeepNames' /\ AcceptedStay'
  BY <1>2, <1>4 DEF BuiltInsKeepNames, AcceptedStay
<1>12. BuiltInsAnswer'
  <2>1. SUFFICES ASSUME NEW u \in Threads, NEW name \in DOMAIN BuiltInType,
                        answer'[u].request = <<Get(name, BuiltInType[name])>>
                 PROVE  answer'[u].service = <<BuiltIn(name)>>
    BY DEF BuiltInsAnswer, Get, BuiltIn, Service
  <2>2. CASE u # t
    <3>1. answer'[u] = answer[u]
      BY <1>3, <1>4, <2>2 DEF Shape
    <3> QED
      BY <1>4, <2>1, <3>1 DEF BuiltInsAnswer
  <2>3. CASE u = t
    <3>1. answer'[u] = [request |-> <<request>>, service |-> service]
      BY <1>3, <1>4, <2>3 DEF Shape
    <3>2. request = Get(name, BuiltInType[name])
      BY <2>1, <3>1
    <3>3. request.name = name /\ request.type = BuiltInType[name]
      BY <3>2 DEF Get
    <3>4. found[t] /\ services[name] = BuiltIn(name)
      BY <1>4, <1>7, <1>8, <3>3 DEF BuiltInsKeepNames
    <3>5. service = <<BuiltIn(name)>>
      BY <3>3, <3>4, BuiltInServices
    <3> QED
      BY <3>1, <3>5
  <2> QED
    BY <2>2, <2>3
<1> QED
  BY <1>6, <1>9, <1>10, <1>11, <1>12 DEF IInv

-----------------------------------------------------------------------------
LEMMA InitEstablishes ==
  ASSUME Init
  PROVE  IInv
<1>1. TypeOK
  BY ContextAssumption DEF Init, TypeOK
<1>2. Shape
  BY DEF Init, Shape
<1>3. \A t \in Threads : Position(t) /\ FoundHolds(t)
  BY DEF Init, Position, FoundHolds
<1>4. BuiltInsKeepNames /\ AcceptedStay
  BY DEF Init, BuiltInsKeepNames, AcceptedStay
<1>5. BuiltInsAnswer
  BY DEF Init, BuiltInsAnswer, Absent
<1> QED
  BY <1>1, <1>2, <1>3, <1>4, <1>5 DEF IInv

LEMMA NextPreserves ==
  ASSUME IInv, [Next]_vars
  PROVE  IInv'
<1>1. ASSUME NEW t \in Threads, NEW name \in Names, NEW type \in Types,
             Begin(t, Get(name, type))
      PROVE  IInv'
  <2>1. Get(name, type) \in Requests
    BY DEF Requests
  <2> QED
    BY <1>1, <2>1, BeginPreserves
<1>2. ASSUME NEW t \in Threads, NEW name \in Names, NEW type \in Types,
             Begin(t, Register(Service(name, type, <<t, calls[t]>>)))
      PROVE  IInv'
  <2>1. calls[t] \in Nat
    BY DEF IInv, Shape
  <2>2. Service(name, type, <<t, calls[t]>>) \in Services
    BY <2>1 DEF Service, Services
  <2>3. Register(Service(name, type, <<t, calls[t]>>)) \in Requests
    BY <2>2, RegisterRequests
  <2> QED
    BY <1>2, <2>3, BeginPreserves
<1>3. ASSUME NEW t \in Threads, Proceed(t)
      PROVE  IInv'
  BY <1>3, LockPreserves, FindPreserves, RegisterServicePreserves,
     GetServicePreserves DEF Proceed
<1>4. CASE UNCHANGED vars
  <2>1. UNCHANGED <<services, mu, pc, todo, found, calls, answer, accepted>>
    BY <1>4 DEF vars
  <2>2. TypeOK' /\ Shape' /\ BuiltInsKeepNames' /\ AcceptedStay' /\ BuiltInsAnswer'
    BY <2>1 DEF IInv, TypeOK, Shape, BuiltInsKeepNames, AcceptedStay, BuiltInsAnswer
  <2>3. ASSUME NEW t \in Threads PROVE Position(t)' /\ FoundHolds(t)'
    <3>1. Position(t) /\ FoundHolds(t)
      BY DEF IInv
    <3>2. Instance' = Instance
      BY DEF Instance
    <3> QED
      BY <2>1, <3>1, <3>2 DEF Position, FoundHolds, Registered
  <2> QED
    BY <2>2, <2>3 DEF IInv
<1> QED
  BY <1>1, <1>2, <1>3, <1>4 DEF Next

LEMMA IInvAlways == Spec => []IInv
BY InitEstablishes, NextPreserves, PTL DEF Spec

(* The variables keep their shape, and the lock is held by exactly the     *)
(* thread that is between lock and return, so no two threads are in the    *)
(* registry at once.                                                       *)
THEOREM TypeCorrect == Spec => []TypeOK
<1>1. IInv => TypeOK
  BY DEF IInv
<1> QED
  BY <1>1, IInvAlways, PTL

(* However the threads interleave, and whatever the users register: a      *)
(* service whose registerService() returned true is the one in the         *)
(* registry from then on.                                                  *)
THEOREM AcceptedServicesStay == Spec => []AcceptedStay
<1>1. IInv => AcceptedStay
  BY DEF IInv
<1> QED
  BY <1>1, IInvAlways, PTL

(* However the threads interleave, every get() of a built-in service by    *)
(* its name and type returns that service, never nullptr and never what a  *)
(* user has registered under the name.                                     *)
THEOREM BuiltInsAlwaysAnswer == Spec => []BuiltInsAnswer
<1>1. IInv => BuiltInsAnswer
  BY DEF IInv
<1> QED
  BY <1>1, IInvAlways, PTL

-----------------------------------------------------------------------------
(***************************************************************************)
(* The context implements the registry without a lock, for any number of   *)
(* threads, names, types and calls.                                        *)
(***************************************************************************)

Taken == accepted \cup {BuiltIn(name) : name \in DOMAIN BuiltInType}

Built == [name \in DOMAIN BuiltInType |-> BuiltIn(name)]

Lookups == {Get(name, type) : name \in Names, type \in Types}

Offers == {Service(name, type, <<t, n>>) :
             name \in Names, type \in Types, t \in Threads, n \in 0 .. MaxCalls - 1}

(* The place of the last of n operations.                                  *)
LEMMA LastPlace ==
  ASSUME NEW n \in 1 .. 5
  PROVE  n \in 1 .. n /\ (n > 1 => n # 1)
OBVIOUS

(* The request of a call is the last of its operations, and stays so when  *)
(* an operation of instance() before it is done.                           *)
LEMMA PendingRequest ==
  ASSUME IInv, NEW t \in Threads, pc[t] # "idle"
  PROVE  /\ todo[t][Len(todo[t])] \in Requests
         /\ Pending[t] = <<todo[t][Len(todo[t])]>>
         /\ ~ Len(todo[t]) > 1 => Pending[t] = <<Head(todo[t])>>
<1>1. /\ todo[t] \in Seq(Requests)
      /\ Len(todo[t]) \in 1 .. 5
      /\ Head(todo[t]) = todo[t][1]
  BY FirstOperation
<1>2. Len(todo[t]) \in 1 .. Len(todo[t])
  BY <1>1, LastPlace
<1>3. todo[t][Len(todo[t])] \in Requests
  BY <1>1, <1>2
<1>4. Pending[t] = <<todo[t][Len(todo[t])]>>
  BY DEF Pending
<1>5. ~ Len(todo[t]) > 1 => Len(todo[t]) = 1
  BY <1>1, OperationsLeft
<1> QED
  BY <1>1, <1>3, <1>4, <1>5

(* What the return from an operation does to the pending requests.         *)
LEMMA ReturnFromOperation ==
  ASSUME IInv, NEW t \in Threads, pc[t] = "act", Return(t)
  PROVE  /\ Len(todo[t]) > 1 => Pending' = Pending
         /\ ~ Len(todo[t]) > 1 => Pending' = [Pending EXCEPT ![t] = Absent]
<1> DEFINE rest == Tail(todo[t])
<1>1. TypeOK /\ Shape
  BY DEF IInv
<1>2. /\ todo' = [todo EXCEPT ![t] = rest]
      /\ pc' = [pc EXCEPT ![t] = IF Len(todo[t]) = 1 THEN "idle" ELSE "lock"]
  BY DEF Return
<1>3. /\ todo[t] \in Seq(Requests)
      /\ todo[t] # <<>>
      /\ Len(todo[t]) \in 1 .. 5
  BY FirstOperation
<1>4. /\ Len(rest) = Len(todo[t]) - 1
      /\ \A i \in 1 .. Len(rest) : rest[i] = todo[t][i + 1]
  BY <1>3, HeadTailProperties
<1> HIDE DEF rest
<1>5. todo'[t] = rest
  BY <1>1, <1>2 DEF Shape
<1>6. ASSUME NEW u \in Threads, u # t PROVE Pending'[u] = Pending[u]
  BY <1>1, <1>2, <1>6 DEF Pending, Shape, TypeOK
<1>7. CASE Len(todo[t]) > 1
  <2>1. Len(rest) \in 1 .. Len(rest) /\ Len(rest) + 1 = Len(todo[t])
    BY <1>3, <1>4, <1>7
  <2>2. rest[Len(rest)] = todo[t][Len(todo[t])]
    BY <1>4, <2>1
  <2>3. pc'[t] = "lock"
    <3>1. Len(todo[t]) # 1
      BY <1>3, <1>7, LastPlace
    <3> QED
      BY <1>1, <1>2, <3>1 DEF TypeOK
  <2>4. Pending'[t] = Pending[t]
    BY <1>5, <2>2, <2>3 DEF Pending
  <2>5. \A u \in Threads : Pending'[u] = Pending[u]
    BY <1>6, <2>4
  <2> QED
    BY <1>7, <2>5 DEF Pending
<1>8. CASE ~ Len(todo[t]) > 1
  <2>1. Len(todo[t]) = 1
    BY <1>3, <1>8, OperationsLeft
  <2>2. pc'[t] = "idle"
    BY <1>1, <1>2, <2>1 DEF TypeOK
  <2>3. Pending'[t] = Absent
    BY <2>2 DEF Pending
  <2>4. \A u \in Threads : Pending'[u] = [Pending EXCEPT ![t] = Absent][u]
    BY <1>6, <2>3 DEF Pending
  <2> QED
    BY <1>8, <2>4 DEF Pending
<1> QED
  BY <1>7, <1>8

-----------------------------------------------------------------------------
(* The beginning of a call, and the steps that only move the lock.         *)
LEMMA BeginIsCall ==
  ASSUME IInv, NEW t \in Threads, NEW request \in Requests, Begin(t, request)
  PROVE  Registry!Call(t, request)
<1>1. /\ pc[t] = "idle"
      /\ pc' = [pc EXCEPT ![t] = "lock"]
      /\ todo' = [todo EXCEPT ![t] = Append(Instance, request)]
      /\ UNCHANGED <<services, answer, accepted>>
  BY DEF Begin
<1>2. TypeOK /\ Shape
  BY DEF IInv
<1>3. PICK operations \in Seq(Requests) : operations = Append(Instance, request)
  BY InstanceOperations, AppendProperties
<1>4. operations[Len(operations)] = request
  BY <1>3, InstanceOperations, AppendProperties
<1>5. Pending[t] = Absent
  BY <1>1 DEF Pending
<1>6. ASSUME NEW u \in Threads
      PROVE  Pending'[u] = [Pending EXCEPT ![t] = <<request>>][u]
  <2>1. CASE u = t
    <3>1. pc'[t] = "lock" /\ todo'[t] = operations
      BY <1>1, <1>2, <1>3 DEF TypeOK, Shape
    <3> QED
      BY <1>4, <2>1, <3>1 DEF Pending
  <2>2. CASE u # t
    <3>1. pc'[u] = pc[u] /\ todo'[u] = todo[u]
      BY <1>1, <1>2, <2>2 DEF TypeOK, Shape
    <3> QED
      BY <2>2, <3>1 DEF Pending
  <2> QED
    BY <2>1, <2>2
<1>7. Pending' = [Pending EXCEPT ![t] = <<request>>]
  BY <1>6 DEF Pending
<1>8. Offered' = Offered /\ Taken' = Taken
  BY <1>1 DEF Offered, Taken, BuiltIn, Service
<1> QED
  BY <1>1, <1>5, <1>7, <1>8 DEF Registry!Call, Registry!Absent, Absent, Taken

LEMMA LockingStutters ==
  ASSUME IInv, NEW t \in Threads, Lock(t) \/ Find(t)
  PROVE  UNCHANGED <<Offered, Pending, answer, Taken>>
<1>1. /\ pc[t] # "idle" /\ \E place \in {"find", "act"} : pc' = [pc EXCEPT ![t] = place]
      /\ UNCHANGED <<services, todo, answer, accepted>>
  BY DEF Lock, Find
<1>2. ASSUME NEW u \in Threads PROVE pc'[u] = "idle" <=> pc[u] = "idle"
  BY <1>1 DEF IInv, TypeOK
<1>3. Pending' = Pending
  BY <1>1, <1>2 DEF Pending
<1> QED
  BY <1>1, <1>3 DEF Offered, Taken, BuiltIn, Service

-----------------------------------------------------------------------------
(* An operation of instance() stutters: the service it enters or finds is  *)
(* the built-in one that the registry has had from the start.              *)
LEMMA InstanceStutters ==
  ASSUME IInv, NEW t \in Threads, RegisterService(t), Len(todo[t]) > 1
  PROVE  UNCHANGED <<Offered, Pending, answer, Taken>>
<1>1. pc[t] = "act" /\ Return(t) /\ UNCHANGED answer
  BY DEF RegisterService
<1>2. pc[t] # "idle"
  BY <1>1
<1>3. PICK name \in DOMAIN BuiltInType : Head(todo[t]) = Register(BuiltIn(name))
  BY <1>2, OperationsOfInstance
<1>4. Head(todo[t]).service = BuiltIn(name) /\ BuiltIn(name).name = name
  BY <1>3, BuiltInServices, RegisterRequests
<1>5. CASE found[t]
  BY <1>1, <1>5, ReturnFromOperation DEF RegisterService, Offered, Taken, BuiltIn, Service
<1>6. CASE ~ found[t]
  <2>1. /\ services' = [n \in DOMAIN services \cup {name} |->
                          IF n = name THEN BuiltIn(name) ELSE services[n]]
        /\ accepted' = accepted \cup {BuiltIn(name)}
    BY <1>4, <1>6 DEF RegisterService, Enter
  <2>2. DOMAIN BuiltInType \cup DOMAIN services' = DOMAIN BuiltInType \cup DOMAIN services
    BY <2>1
  <2>3. \A n \in DOMAIN services : n \notin DOMAIN BuiltInType => services'[n] = services[n]
    BY <2>1
  <2>4. \A n \in DOMAIN BuiltInType : BuiltIn(n)' = BuiltIn(n)
    BY DEF BuiltIn, Service
  <2>5. Offered' = Offered
    BY <2>2, <2>3, <2>4 DEF Offered
  <2>6. Taken' = Taken
    BY <2>1, <2>4 DEF Taken
  <2> QED
    BY <1>1, <2>5, <2>6, ReturnFromOperation
<1> QED
  BY <1>5, <1>6

(* What the registry offers when instance() is through: the services that  *)
(* are in it.                                                              *)
LEMMA OfferedAfterInstance ==
  ASSUME IInv, NEW t \in Threads, pc[t] # "idle", ~ Len(todo[t]) > 1
  PROVE  /\ DOMAIN Offered = DOMAIN services
         /\ \A name \in DOMAIN services : Offered[name] = services[name]
<1>1. DOMAIN BuiltInType \subseteq DOMAIN services
  BY RequestAfterInstance
<1>2. \A name \in DOMAIN BuiltInType : services[name] = BuiltIn(name)
  BY <1>1 DEF IInv, BuiltInsKeepNames
<1> QED
  BY <1>1, <1>2 DEF Offered

LEMMA RequestIsAccepted ==
  ASSUME IInv, NEW t \in Threads, NEW service \in Services,
         RegisterService(t), ~ Len(todo[t]) > 1,
         Head(todo[t]) = Register(service), ~ found[t]
  PROVE  Registry!Accept(t, service)
<1>1. /\ pc[t] = "act" /\ pc[t] # "idle" /\ Return(t) /\ UNCHANGED answer
      /\ Head(todo[t]).op = "register"
  BY DEF RegisterService
<1>2. Head(todo[t]).service = service
  BY RegisterRequests
<1>3. /\ services' = [name \in DOMAIN services \cup {service.name} |->
                        IF name = service.name THEN service ELSE services[name]]
      /\ accepted' = accepted \cup {service}
  BY <1>2 DEF RegisterService, Enter
<1>4. service.name \notin DOMAIN services
  BY <1>1, <1>2, ServiceToRegister
<1>5. /\ DOMAIN Offered = DOMAIN services
      /\ \A name \in DOMAIN services : Offered[name] = services[name]
      /\ DOMAIN BuiltInType \subseteq DOMAIN services
  BY <1>1, OfferedAfterInstance, RequestAfterInstance
<1>6. \A name \in DOMAIN BuiltInType : BuiltIn(name)' = BuiltIn(name)
  BY DEF BuiltIn, Service
<1>7. Offered' = [name \in DOMAIN Offered \cup {service.name} |->
                    IF name = service.name THEN service ELSE Offered[name]]
  <2>1. DOMAIN BuiltInType \cup DOMAIN services' = DOMAIN Offered \cup {service.name}
    BY <1>3, <1>5
  <2>2. ASSUME NEW name \in DOMAIN Offered \cup {service.name}
        PROVE  (IF name \in DOMAIN BuiltInType THEN BuiltIn(name) ELSE services'[name])
                 = IF name = service.name THEN service ELSE Offered[name]
    <3>1. CASE name \in DOMAIN BuiltInType
      BY <1>4, <1>5, <3>1 DEF Offered
    <3>2. CASE name \notin DOMAIN BuiltInType
      BY <1>3, <1>5, <3>2
    <3> QED
      BY <3>1, <3>2
  <2> QED
    BY <1>6, <2>1, <2>2 DEF Offered
<1>8. Taken' = Taken \cup {service}
  BY <1>3, <1>6 DEF Taken
<1>9. Pending[t] = <<Register(service)>> /\ Pending' = [Pending EXCEPT ![t] = Absent]
  BY <1>1, PendingRequest, ReturnFromOperation
<1> QED
  BY <1>1, <1>4, <1>5, <1>7, <1>8, <1>9
  DEF Registry!Accept, Registry!Registration, Registry!Absent, Absent, Register, Taken

LEMMA RequestIsDeclined ==
  ASSUME IInv, NEW t \in Threads, NEW service \in Services,
         RegisterService(t), ~ Len(todo[t]) > 1,
         Head(todo[t]) = Register(service), found[t]
  PROVE  Registry!Decline(t, service)
<1>1. /\ pc[t] = "act" /\ pc[t] # "idle" /\ Return(t)
      /\ UNCHANGED <<services, accepted, answer>>
      /\ Head(todo[t]).op = "register"
  BY DEF RegisterService
<1>2. Head(todo[t]).service = service
  BY RegisterRequests
<1>3. service.name \in DOMAIN Offered
  BY <1>1, <1>2, ServiceToRegister, OfferedAfterInstance
<1>4. Pending[t] = <<Register(service)>> /\ Pending' = [Pending EXCEPT ![t] = Absent]
  BY <1>1, PendingRequest, ReturnFromOperation
<1>5. Offered' = Offered /\ Taken' = Taken
  BY <1>1 DEF Offered, Taken, BuiltIn, Service
<1> QED
  BY <1>1, <1>3, <1>4, <1>5
  DEF Registry!Decline, Registry!Registration, Registry!Absent, Absent, Register, Taken

LEMMA GetIsAnswered ==
  ASSUME IInv, NEW t \in Threads, NEW request, GetService(t), request = Head(todo[t])
  PROVE  Registry!Answer(t, request)
<1>1. /\ pc[t] = "act" /\ pc[t] # "idle" /\ Return(t)
      /\ UNCHANGED <<services, accepted>>
      /\ request.op = "get"
  BY DEF GetService
<1>2. ~ Len(todo[t]) > 1
  <2>1. SUFFICES ASSUME Len(todo[t]) > 1 PROVE FALSE
    OBVIOUS
  <2>2. PICK name \in DOMAIN BuiltInType : request = Register(BuiltIn(name))
    BY <1>1, <2>1, OperationsOfInstance
  <2> QED
    BY <1>1, <2>2, BuiltInServices, RegisterRequests
<1>3. Pending[t] = <<request>> /\ Pending' = [Pending EXCEPT ![t] = Absent]
  BY <1>1, <1>2, PendingRequest, ReturnFromOperation
<1>4. found[t] <=> request.name \in DOMAIN services
  BY <1>1, FirstOperation DEF IInv, FoundHolds
<1>5. /\ DOMAIN Offered = DOMAIN services
      /\ \A name \in DOMAIN services : Offered[name] = services[name]
  BY <1>1, <1>2, OfferedAfterInstance
<1>6. answer' = [answer EXCEPT ![t] =
        [request |-> <<request>>,
         service |-> IF found[t] /\ services[request.name].type = request.type
                       THEN <<services[request.name]>> ELSE Absent]]
  BY DEF GetService
<1>7. answer' = [answer EXCEPT ![t] =
        [request |-> <<request>>,
         service |-> IF /\ request.name \in DOMAIN Offered
                        /\ Offered[request.name].type = request.type
                       THEN <<Offered[request.name]>> ELSE Absent]]
  BY <1>4, <1>5, <1>6
<1>8. Offered' = Offered /\ Taken' = Taken
  BY <1>1 DEF Offered, Taken, BuiltIn, Service
<1> QED
  BY <1>3, <1>7, <1>8 DEF Registry!Answer, Registry!Absent, Absent, Taken

-----------------------------------------------------------------------------
(* What threads ask for.                                                   *)
Asks == {Register(s) : s \in Offers} \cup Lookups

Asked == \A t \in Threads : pc[t] # "idle" => \E r \in Asks : Pending[t] = <<r>>

LEMMA OffersAreServices == Offers \subseteq Services /\ Asks \subseteq Requests
<1>1. \A n \in 0 .. MaxCalls - 1 : n \in Nat
  OBVIOUS
<1>2. Offers \subseteq Services
  BY <1>1 DEF Offers, Services, Service
<1> QED
  BY <1>2 DEF Asks, Lookups, Requests

RegistryInv == IInv /\ Asked

LEMMA InitIsInit ==
  ASSUME Init
  PROVE  Registry!Init /\ RegistryInv
<1>1. Offered = Built
  BY DEF Init, Offered, Built
<1>2. Pending = [t \in Threads |-> Absent]
  BY DEF Init, Pending
<1>3. Taken = {Built[name] : name \in DOMAIN Built}
  BY DEF Init, Taken, Built
<1>4. Asked
  BY DEF Init, Asked
<1> QED
  BY <1>1, <1>2, <1>3, <1>4, InitEstablishes
  DEF Init, Registry!Init, Registry!Absent, Absent, Built, Taken, RegistryInv

LEMMA NextKeepsAsked ==
  ASSUME RegistryInv, [Next]_vars
  PROVE  RegistryInv'
<1>1. IInv /\ Asked /\ IInv' /\ TypeOK /\ Shape
  BY NextPreserves DEF RegistryInv, IInv
<1>2. ASSUME NEW t \in Threads, NEW request \in Asks, Begin(t, request)
      PROVE  Asked'
  <2>1. Registry!Call(t, request)
    BY <1>1, <1>2, OffersAreServices, BeginIsCall
  <2>2. Pending' = [Pending EXCEPT ![t] = <<request>>]
    BY <2>1 DEF Registry!Call
  <2>3. \A u \in Threads : u # t => pc'[u] = pc[u]
    BY <1>1, <1>2 DEF Begin, TypeOK
  <2> QED
    BY <1>1, <2>2, <2>3 DEF Asked, Pending
<1>3. ASSUME NEW t \in Threads, Lock(t) \/ Find(t)
      PROVE  Asked'
  <2>1. Pending' = Pending
    BY <1>1, <1>3, LockingStutters
  <2>2. \A u \in Threads : pc'[u] # "idle" => pc[u] # "idle"
    BY <1>1, <1>3 DEF Lock, Find, TypeOK
  <2> QED
    BY <1>1, <2>1, <2>2 DEF Asked
<1>4. ASSUME NEW t \in Threads, RegisterService(t) \/ GetService(t)
      PROVE  Asked'
  <2>1. pc[t] = "act" /\ Return(t)
    BY <1>4 DEF RegisterService, GetService
  <2>2. /\ Len(todo[t]) > 1 => Pending' = Pending
        /\ ~ Len(todo[t]) > 1 => Pending' = [Pending EXCEPT ![t] = Absent]
    BY <1>1, <2>1, ReturnFromOperation
  <2>3. \A u \in Threads : u # t => pc'[u] = pc[u]
    BY <1>1, <2>1 DEF Return, TypeOK
  <2>4. Len(todo[t]) \in 1 .. 5
    BY <1>1, <2>1, FirstOperation
  <2>5. ~ Len(todo[t]) > 1 => Len(todo[t]) = 1
    BY <2>4, OperationsLeft
  <2>6. ~ Len(todo[t]) > 1 => pc'[t] = "idle"
    BY <1>1, <2>1, <2>5 DEF Return, TypeOK
  <2>7. Len(todo[t]) > 1 => Asked'
    BY <1>1, <2>1, <2>2, <2>3 DEF Asked
  <2>8. ~ Len(todo[t]) > 1 => Asked'
    BY <1>1, <2>2, <2>3, <2>6 DEF Asked, Pending
  <2> QED
    BY <2>7, <2>8
<1>5. ASSUME UNCHANGED vars
      PROVE  Asked'
  BY <1>1, <1>5 DEF vars, Asked, Pending
<1>6. ASSUME NEW t \in Threads, NEW name \in Names, NEW type \in Types,
             Begin(t, Register(Service(name, type, <<t, calls[t]>>)))
      PROVE  Asked'
  <2>1. calls[t] \in 0 .. MaxCalls - 1
    BY <1>1, <1>6, ContextAssumption DEF Begin, Shape
  <2>2. Service(name, type, <<t, calls[t]>>) \in Offers
    BY <2>1 DEF Offers
  <2> QED
    BY <1>2, <1>6, <2>2 DEF Asks
<1>7. ASSUME NEW t \in Threads, NEW name \in Names, NEW type \in Types,
             Begin(t, Get(name, type))
      PROVE  Asked'
  BY <1>2, <1>7 DEF Asks, Lookups
<1>8. ASSUME Next
      PROVE  Asked'
  <2>1. PICK t \in Threads :
          \/ \E name \in Names, type \in Types : Begin(t, Get(name, type))
          \/ \E name \in Names, type \in Types :
               Begin(t, Register(Service(name, type, <<t, calls[t]>>)))
          \/ Lock(t) \/ Find(t)
          \/ RegisterService(t) \/ GetService(t)
    BY <1>8 DEF Next, Proceed
  <2> QED
    BY <1>3, <1>4, <1>6, <1>7, <2>1
<1>9. Asked'
  BY <1>5, <1>8
<1> QED
  BY <1>1, <1>9 DEF RegistryInv

(* What a thread that is through with instance() asks for.                 *)
LEMMA LastOperation ==
  ASSUME RegistryInv, NEW t \in Threads, pc[t] = "act", ~ Len(todo[t]) > 1
  PROVE  Head(todo[t]) \in Asks
<1>1. IInv /\ pc[t] # "idle"
  BY DEF RegistryInv
<1>2. PICK r \in Asks : Pending[t] = <<r>>
  BY <1>1 DEF RegistryInv, Asked
<1>3. Pending[t] = <<Head(todo[t])>>
  BY <1>1, PendingRequest
<1> QED
  BY <1>2, <1>3

(* Every step of the context is one of the registry or changes nothing     *)
(* that its callers see.                                                   *)
LEMMA StepIsStep ==
  ASSUME RegistryInv, [Next]_vars
  PROVE  Registry!Next \/ UNCHANGED <<Offered, Pending, answer, Taken>>
<1>1. IInv
  BY DEF RegistryInv
<1>2. ASSUME NEW t \in Threads, NEW name \in Names, NEW type \in Types,
             Begin(t, Get(name, type))
      PROVE  Registry!Next
  <2>1. Get(name, type) \in Lookups
    BY DEF Lookups
  <2>2. Get(name, type) \in Requests
    BY DEF Requests
  <2>3. Registry!Call(t, Get(name, type))
    BY <1>1, <1>2, <2>2, BeginIsCall
  <2> QED
    BY <2>1, <2>3 DEF Registry!Next, Lookups
<1>3. ASSUME NEW t \in Threads, NEW name \in Names, NEW type \in Types,
             Begin(t, Register(Service(name, type, <<t, calls[t]>>)))
      PROVE  Registry!Next
  <2> DEFINE service == Service(name, type, <<t, calls[t]>>)
  <2>1. calls[t] \in 0 .. MaxCalls - 1
    BY <1>1, <1>3, ContextAssumption DEF Begin, IInv, Shape
  <2>2. service \in Offers
    BY <2>1 DEF Offers
  <2>3. service \in Services /\ Register(service) \in Requests
    BY <2>2, OffersAreServices, RegisterRequests
  <2>4. Registry!Call(t, Register(service))
    BY <1>1, <1>3, <2>3, BeginIsCall
  <2>5. Register(service) = Registry!Registration(service)
    BY DEF Register, Registry!Registration
  <2> HIDE DEF service
  <2> QED
    BY <2>2, <2>4, <2>5 DEF Registry!Next, Offers
<1>4. ASSUME NEW t \in Threads, RegisterService(t), ~ Len(todo[t]) > 1
      PROVE  Registry!Next
  <2>1. pc[t] = "act" /\ Head(todo[t]).op = "register"
    BY <1>4 DEF RegisterService
  <2>2. Head(todo[t]) \in Asks
    BY <1>4, <2>1, LastOperation
  <2>3. PICK service \in Offers : Head(todo[t]) = Register(service)
    BY <2>1, <2>2 DEF Asks, Lookups, Get
  <2>4. service \in Services
    BY <2>3, OffersAreServices
  <2>5. Registry!Accept(t, service) \/ Registry!Decline(t, service)
    BY <1>1, <1>4, <2>3, <2>4, RequestIsAccepted, RequestIsDeclined
  <2> QED
    BY <2>3, <2>5 DEF Registry!Next, Offers
<1>5. ASSUME NEW t \in Threads, GetService(t)
      PROVE  Registry!Next
  <2>1. PICK request : request = Head(todo[t])
    OBVIOUS
  <2>2. Registry!Answer(t, request)
    BY <1>1, <1>5, <2>1, GetIsAnswered
  <2>3. ~ Len(todo[t]) > 1
    <3>1. pc[t] # "idle" /\ request.op = "get"
      BY <1>5, <2>1 DEF GetService
    <3>2. SUFFICES ASSUME Len(todo[t]) > 1 PROVE FALSE
      OBVIOUS
    <3>3. PICK name \in DOMAIN BuiltInType : request = Register(BuiltIn(name))
      BY <1>1, <2>1, <3>1, <3>2, OperationsOfInstance
    <3> QED
      BY <3>1, <3>3, BuiltInServices, RegisterRequests
  <2>4. request \in Asks /\ request.op = "get"
    BY <1>5, <2>1, <2>3, LastOperation DEF GetService
  <2>5. request \in Lookups
    BY <2>4 DEF Asks, Register
  <2> QED
    BY <2>2, <2>5 DEF Registry!Next, Lookups
<1>6. CASE Next
  <2>1. PICK t \in Threads :
          \/ \E name \in Names, type \in Types : Begin(t, Get(name, type))
          \/ \E name \in Names, type \in Types :
               Begin(t, Register(Service(name, type, <<t, calls[t]>>)))
          \/ Lock(t) \/ Find(t)
          \/ RegisterService(t) \/ GetService(t)
    BY <1>6 DEF Next, Proceed
  <2> QED
    BY <1>1, <1>2, <1>3, <1>4, <1>5, <2>1, LockingStutters, InstanceStutters
<1>7. CASE UNCHANGED vars
  BY <1>7 DEF vars, Offered, Pending, Taken, BuiltIn, Service
<1> QED
  BY <1>6, <1>7

(* For any number of threads and calls, and however they interleave: what  *)
(* the callers of instance().registerService() and instance().get() see is *)
(* what a registry without a lock would show them in which every call      *)
(* takes effect at one instant and the built-in services have always been. *)
THEOREM ContextImplementsRegistry == Spec => ImplementsRegistry
<1>1. Init => Registry!Init /\ RegistryInv
  BY InitIsInit
<1>2. RegistryInv /\ [Next]_vars => RegistryInv'
  BY NextKeepsAsked
<1>3. RegistryInv /\ [Next]_vars => [Registry!Next]_(Registry!vars)
  BY StepIsStep DEF Registry!vars, Taken
<1> QED
  BY <1>1, <1>2, <1>3, PTL DEF Spec, ImplementsRegistry, Registry!Spec
=============================================================================
