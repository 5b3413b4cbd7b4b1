------------------------------ MODULE MCPayloads ------------------------------
(***************************************************************************)
(* Values for Payloads: every operation, result, error, event and promise  *)
(* state, with one component of a transition or a snapshot varied at a     *)
(* time.                                                                   *)
(***************************************************************************)
EXTENDS Payloads

None == <<>>
A == <<65>>
AB == <<65, 66>>
Padded == <<Space, 65>>

Curves == {None, << <<<<0, 2>>, 3>> >>, << <<<<-1, 2>>, 3>>, <<<<2, 4>>, 1>> >>}
Claim1 == <<1, <<0, 2>>, 1>>
Claim2 == <<2, <<-1, 1>>, 2>>
Later == <<1, <<2, 4>>, 1>>
Bundles == {<<Claim1>>, <<Claim1, Claim2>>, <<Claim2, Claim1>>, <<Claim1, Claim1>>, <<Later, Claim1>>}
Alternatives == {<<p>> : p \in Bundles} \cup
           {<<p, q>> : p, q \in {<<Claim1>>, <<Claim1, Claim2>>, <<Claim2, Claim1>>}}
Relative1 == <<1, -1, 1, 1>>
Relative2 == <<1, 0, 2, 1>>
RelativeBundles == {<<Relative1>>, <<Relative1, Relative2>>, <<Relative2, Relative1>>}

AllOperations ==
  {<<"CreateResourcePool", <<1, name, <<unit, 1>>, curve>>>> :
     name \in {None, A}, unit \in {A, AB}, curve \in Curves}
  \cup {<<"ReviseCapacity", <<id, curve, <<mode, None>>>>>> :
          id \in {1, 2}, curve \in Curves, mode \in {"Strict", "Force"}}
  \cup {<<"Hold", <<id, bundle, at>>>> : id \in {1, 2}, bundle \in Bundles, at \in {-1, 4}}
  \cup {<<"HoldOneOf", <<1, choice, 4>>>> : choice \in Alternatives}
  \cup {<<"HoldFirstSlot", <<1, bundle, from, to, 1, 4>>>> :
          bundle \in RelativeBundles, from \in {0, 1}, to \in {1, 2}}
  \cup {<<name, <<id, version>>>> : name \in {"Commit", "Release"}, id \in {1, 2}, version \in {1, 2}}
  \cup {<<"Replace", <<1, version, bundle, state>>>> :
          version \in {1, 2}, bundle \in Bundles, state \in {<<"Committed", None>>, <<"Held", 4>>}}
  \cup {<<"ProcessExpirations", None>>}

AllCommands == {<<client, key, operation>> :
                  client \in {None, A}, key \in {AB}, operation \in AllOperations}

Conflicts == {<< <<1, <<0, 2>>, 3, 1, 2, ids>> >> : ids \in {None, <<1>>, <<1, 2>>}}
               \cup {<< <<1, <<0, 1>>, 1, 0, 1, None>>, <<2, <<0, 2>>, 2, 0, 2, <<2>>>> >>}
Deficits == {<<1, <<0, 2>>, 1, ids>> : ids \in {None, <<1, 2>>}}
Results ==
  {<<"ResourcePoolCreated", 1>>, <<"ExpirationsProcessed", 0>>, <<"ExpirationsProcessed", 2>>}
  \cup {<<"CapacityRevised", <<1, deficits, <<1>>>>>> : deficits \in {None} \cup {<<d>> : d \in Deficits}}
  \cup {<<name, <<"Held", 1>>>> : name \in {"HoldCompleted"}}
  \cup {<<name, <<"Unavailable", c>>>> : name \in {"HoldCompleted", "PromiseReplaced"}, c \in Conflicts}
  \cup {<<"ChoiceCompleted", <<"Held", <<1, index>>>>>> : index \in {0, 1}}
  \cup {<<"ChoiceCompleted", <<"Unavailable", list>>>> :
          list \in {<< <<0, c>> >> : c \in Conflicts} \cup {<< <<0, c>>, <<1, c>> >> : c \in Conflicts}}
  \cup {<<"SlotCompleted", <<"Held", <<1, -1>>>>>>, <<"SlotCompleted", <<"Unavailable", 3>>>>}
  \cup {<<name, <<1, 2>>>> : name \in {"PromiseCommitted", "PromiseReleased"}}
  \cup {<<"PromiseReplaced", <<"Replaced", <<1, 2>>>>>>}
Responses == {<<"Ok", result>> : result \in Results}
             \cup {<<"Err", <<DomainErrors[i], None>>>> : i \in DOMAIN DomainErrors}

Pool(id, name, curve) == <<id, name, <<A, 1>>, curve>>
PoolLists == {None} \cup {<<Pool(1, name, curve)>> : name \in {None, AB}, curve \in Curves}
             \cup {<<Pool(1, A, None), Pool(2, A, None)>>}
States == {<<"Held", 4>>, <<"Committed", None>>, <<"Released", None>>, <<"Expired", None>>}
Promise(id, state, bundle) == <<id, state, bundle, 2, 1, 2>>
PromiseLists ==
  {None} \cup {<<Promise(1, state, bundle)>> : state \in States, bundle \in Bundles}
  \cup {<<Promise(1, <<"Expired", None>>, <<Claim1>>), Promise(2, <<"Held", 4>>, <<Claim2>>)>>}
Data(name) == CASE EventData(name) = "ResourcePool" -> {<<"ResourcePool", 1>>}
                [] EventData(name) = "Promise" -> {<<"Promise", <<1, 2>>>>}
                [] EventData(name) = "Deficit" -> {<<"Deficit", d>> : d \in Deficits}
Events == UNION {{<<1, -1, <<EventKinds[i], None>>, data>> : data \in Data(EventKinds[i])} :
                   i \in DOMAIN EventKinds}
EventLists == {None} \cup {<<e>> : e \in Events} \cup {<<e, e>> : e \in Events}

Hold1 == <<"Hold", <<1, <<Claim1>>, 4>>>>
Ok1 == <<"Ok", <<"HoldCompleted", <<"Held", 1>>>>>>
Transition(operation, response, pools, promises, events) ==
  <<<<A, AB, operation>>,
    <<A, AB, HashOperation(operation), response, pools, promises, events, 1>>>>
AllTransitions ==
  {Transition(operation, Ok1, None, None, None) : operation \in AllOperations}
  \cup {Transition(Hold1, response, None, None, None) : response \in Responses}
  \cup {Transition(Hold1, Ok1, pools, None, None) : pools \in PoolLists}
  \cup {Transition(Hold1, Ok1, None, promises, None) : promises \in PromiseLists}
  \cup {Transition(Hold1, Ok1, None, None, events) : events \in EventLists}

Snapshot(pools, promises, events, records) ==
  [uuid |-> 7, semantics |-> 1, watermark |-> 3, sequence |-> 2, revision |-> 3, pruned |-> 0,
   pools |-> pools, promises |-> promises, events |-> events, records |-> records]
Record(key, response) == <<A, key, HashOperation(Hold1), response>>
Long == <<65, 66, 65>>
AllSnapshots ==
  {Snapshot(pools, None, None, None) : pools \in PoolLists \cup {<<Pool(1, Long, None)>>}}
  \cup {Snapshot(None, promises, None, None) : promises \in PromiseLists}
  \cup {Snapshot(None, None, events, None) : events \in EventLists}
  \cup {Snapshot(None, None, None, <<Record(A, response)>>) : response \in Responses}
  \cup {Snapshot(None, None, None, [i \in 1..n |-> Record(<<64 + i>>, Ok1)]) : n \in {2, 3}}

RoomyLimits == [total |-> 500, collection |-> 2, string |-> 2, nested |-> 2]
\* As by default, more characters than items.
LongTexts == [RoomyLimits EXCEPT !.string = 3]
===============================================================================
