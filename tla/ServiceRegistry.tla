-------------------------- MODULE ServiceRegistry --------------------------
(***************************************************************************)
(* What the checksum registry promises the threads that share it, without  *)
(* a lock and without instance(): a map from names to services that has    *)
(* the built-in ones from the start, in which the first registration of a  *)
(* name wins, and on which every call takes effect at one instant between  *)
(* its beginning and its end.                                              *)
(***************************************************************************)
EXTENDS Integers, Sequences

CONSTANTS Threads,   \* the threads of the program
          Services,  \* the services that there may be
          Lookups,   \* the get() calls that there may be
          BuiltIns   \* the built-in services, by name

VARIABLES services,  \* the service of each name
          pending,   \* the request of the call that each thread is in
          answer,    \* what the last get() of each thread returned
          accepted   \* the services whose registration returned true

vars == <<services, pending, answer, accepted>>

Absent == <<>>

Init ==
  /\ services = BuiltIns
  /\ pending = [t \in Threads |-> Absent]
  /\ answer = [t \in Threads |-> [request |-> Absent, service |-> Absent]]
  /\ accepted = {BuiltIns[name] : name \in DOMAIN BuiltIns}

Call(t, request) ==
  /\ pending[t] = Absent
  /\ pending' = [pending EXCEPT ![t] = <<request>>]
  /\ UNCHANGED <<services, answer, accepted>>

Registration(service) ==
  [op |-> "register", name |-> service.name, service |-> service]

(* registerService() of a name that is free, and of one that is taken.     *)
Accept(t, service) ==
  /\ pending[t] = <<Registration(service)>>
  /\ service.name \notin DOMAIN services
  /\ services' = [name \in DOMAIN services \cup {service.name} |->
                    IF name = service.name THEN service ELSE services[name]]
  /\ accepted' = accepted \cup {service}
  /\ pending' = [pending EXCEPT ![t] = Absent]
  /\ UNCHANGED answer

Decline(t, service) ==
  /\ pending[t] = <<Registration(service)>>
  /\ service.name \in DOMAIN services
  /\ pending' = [pending EXCEPT ![t] = Absent]
  /\ UNCHANGED <<services, answer, accepted>>

(* get(): the service of that name if its type is the one asked for.       *)
Answer(t, request) ==
  /\ pending[t] = <<request>>
  /\ answer' = [answer EXCEPT ![t] =
       [request |-> <<request>>,
        service |-> IF /\ request.name \in DOMAIN services
                       /\ services[request.name].type = request.type
                      THEN <<services[request.name]>> ELSE Absent]]
  /\ pending' = [pending EXCEPT ![t] = Absent]
  /\ UNCHANGED <<services, accepted>>

Next ==
  \E t \in Threads :
    \/ \E service \in Services :
         Call(t, Registration(service)) \/ Accept(t, service) \/ Decline(t, service)
    \/ \E request \in Lookups : Call(t, request) \/ Answer(t, request)

Spec == Init /\ [][Next]_vars
=============================================================================
