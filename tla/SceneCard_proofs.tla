-------------------------- MODULE SceneCard_proofs --------------------------
(***************************************************************************)
(* Proofs about SceneCard, for any entities, addresses, scenes and effects *)
(* and any number of loads, calls and changes.                             *)
(***************************************************************************)
EXTENDS SceneCard, FiniteSetTheorems, TLAPS

-----------------------------------------------------------------------------
(* The inductive invariant.                                                *)

\* A load that is not aborted is the last one, for the present configuration of a
\* card in the page, and no other load has its number.
LoadInv ==
  /\ \A l \in loads : l.n <= started
  /\ \A l, m \in loads : l.n = m.n => l = m
  /\ \A l \in loads : ~l.aborted =>
       connected /\ config # None /\ l.n = started /\ l.url = config.url

\* A call of this generation is the last one, and was made under this configuration.
CallInv ==
  /\ \A c \in calls : c.n <= made /\ c.generation <= generation
  /\ busy => \E c \in calls : c.generation = generation
  /\ \A c \in calls : c.generation = generation => busy /\ c.n = made /\ c.config = config
  /\ \A c, d \in calls : c.n = d.n => c = d

\* An unconfigured card has nothing to offer.
OfferInv ==
  /\ config = None => scenes = None
  /\ OffersCurrent

IInv == TypeOK /\ LoadInv /\ CallInv /\ OfferInv /\ LoadShown /\ ShownIsOwn

-----------------------------------------------------------------------------
(* Each part is kept.                                                      *)

Load == [n : 0..MaxLoads, url : Urls, aborted : BOOLEAN]

\* Aborted loads are loads of the same numbers, and none of them is alive.
LEMMA AbortedLoads ==
  ASSUME TypeOK
  PROVE  /\ Aborted \subseteq Load
         /\ \A l \in Aborted : l.aborted /\ \E m \in loads : l.n = m.n /\ l.url = m.url
         /\ \A l, m \in Aborted : LoadInv /\ l.n = m.n => l = m
<1>1. \A m \in loads : m \in Load
  BY DEF TypeOK, Load, Numbers
<1>2. ASSUME NEW l \in Aborted
      PROVE  \E m \in loads : /\ l = [m EXCEPT !.aborted = TRUE] /\ l \in Load
                              /\ l.aborted /\ l.n = m.n /\ l.url = m.url
  <2>1. PICK m \in loads : l = [m EXCEPT !.aborted = TRUE]
    BY DEF Aborted
  <2>2. m \in Load
    BY <1>1
  <2>3. l \in Load /\ l.aborted /\ l.n = m.n /\ l.url = m.url
    BY <2>1, <2>2 DEF Load
  <2>. QED
    BY <2>1, <2>3
<1>3. ASSUME NEW l \in Aborted, NEW m \in Aborted, LoadInv, l.n = m.n PROVE l = m
  <2>1. PICK i \in loads : l = [i EXCEPT !.aborted = TRUE] /\ l.n = i.n
    BY <1>2
  <2>2. PICK j \in loads : m = [j EXCEPT !.aborted = TRUE] /\ m.n = j.n
    BY <1>2
  <2>3. i = j
    BY <1>3, <2>1, <2>2 DEF LoadInv
  <2>. QED
    BY <2>1, <2>2, <2>3
<1>. QED
  BY <1>2, <1>3

\* A load that starts is the last one, and the only one that is not aborted.
LEMMA StartedLoad ==
  ASSUME TypeOK, LoadInv, NEW url \in Urls, StartLoad(url)
  PROVE  /\ started' \in 0..MaxLoads /\ loading' = TRUE /\ loads' \subseteq Load
         /\ \A l \in loads' : l.n <= started'
         /\ \A l, m \in loads' : l.n = m.n => l = m
         /\ \A l \in loads' : ~l.aborted => l.n = started' /\ l.url = url
         /\ \E l \in loads' : ~l.aborted
<1>. DEFINE new == [n |-> started + 1, url |-> url, aborted |-> FALSE]
<1>1. started \in Nat /\ started + 1 \in 0..MaxLoads
  BY CardAssumption DEF CardAssumption, TypeOK, Numbers, StartLoad
<1>2. new \in Load /\ new.n = started + 1 /\ new.url = url /\ ~new.aborted
  BY <1>1 DEF Load
<1>3. loads' = Aborted \cup {new} /\ started' = started + 1 /\ loading' = TRUE
  BY DEF StartLoad
<1>. HIDE DEF new
<1>4. ASSUME NEW l \in Aborted PROVE l \in Load /\ l.aborted /\ l.n <= started
  BY AbortedLoads DEF LoadInv
<1>5. \A l \in Aborted : l.n \in Nat /\ l.n # started + 1 /\ l.n <= started + 1
  BY <1>1, <1>4 DEF Load
<1>. QED
  BY <1>1, <1>2, <1>3, <1>4, <1>5, AbortedLoads

\* The variables have their types at first.
LEMMA TypeInit == Init => TypeOK
<1>. SUFFICES ASSUME Init PROVE TypeOK
  OBVIOUS
<1>1. 0 \in 0..MaxLoads /\ 0 \in 0..MaxCalls /\ 0 \in 0..MaxChanges
  BY CardAssumption DEF CardAssumption
<1>2. \A b \in {connected, loading, failed, busy} : b \in BOOLEAN
  BY DEF Init
<1>. QED
  BY <1>1, <1>2 DEF Init, TypeOK, Numbers

\* Every step keeps the types.
LEMMA TypeNext == TypeOK /\ LoadInv /\ CallInv /\ [Next]_vars => TypeOK'
<1>. SUFFICES ASSUME TypeOK, LoadInv, CallInv, [Next]_vars
             PROVE  TypeOK'
  OBVIOUS
<1>0. /\ started \in Nat /\ made \in Nat /\ generation \in Nat
      /\ MaxLoads \in Nat /\ MaxCalls \in Nat /\ MaxChanges \in Nat
  BY CardAssumption DEF TypeOK, Numbers, CardAssumption
<1>1. \A url \in Urls : StartLoad(url) =>
        loads' \subseteq Load /\ started' \in 0..MaxLoads /\ loading' \in BOOLEAN
  BY StartedLoad
<1>2. Aborted \subseteq Load
  BY AbortedLoads
<1>3. \A c, st : KeptEffect(c, st) \in Effects \cup {None}
  BY DEF KeptEffect, TypeOK
<1>4. \A cat, query : Kept(cat, query) \in Scenes \cup {None}
  BY DEF Kept, TypeOK
<1>. USE DEF Numbers
<1>5. ASSUME NEW e \in Entities, NEW u \in Urls, SetConfig([entity |-> e, url |-> u])
      PROVE  TypeOK'
  <2>1. generation + 1 \in 0..MaxChanges
    BY <1>0, <1>5 DEF SetConfig
  <2>2. loads' \subseteq Load /\ started' \in 0..MaxLoads /\ loading' \in BOOLEAN
    BY <1>1, <1>2, <1>5 DEF SetConfig, TypeOK
  <2>3. \A b \in {connected', loading', failed', busy'} : b \in BOOLEAN
    BY <1>5, <2>2 DEF SetConfig, TypeOK
  <2>4. made' \in 0..MaxCalls /\ shown' = None
    BY <1>5 DEF SetConfig, AfterSetConfig, TypeOK
  <2>5. config' \in Configs
    BY <1>5 DEF SetConfig, Configs
  <2>6. stored' \in Effects \cup {None}
    BY <1>3, <1>5 DEF SetConfig
  <2>. QED
    BY <1>5, <2>1, <2>2, <2>3, <2>4, <2>5, <2>6 DEF SetConfig, TypeOK, Load
<1>6. CASE Connect
  <2>1. config # None => config.url \in Urls
    BY DEF TypeOK, Configs
  <2>2. loads' \subseteq Load /\ started' \in 0..MaxLoads /\ loading' \in BOOLEAN
    BY <1>1, <1>6, <2>1 DEF Connect, traffic, TypeOK, Load
  <2>. QED
    BY <1>6, <2>2 DEF Connect, acting, TypeOK, Load
<1>7. CASE Disconnect
  <2>1. generation + 1 \in 0..MaxChanges
    BY <1>0, <1>7 DEF Disconnect
  <2>2. \A b \in {connected', loading', failed', busy'} : b \in BOOLEAN
    BY <1>7 DEF Disconnect, catalogue, TypeOK
  <2>3. loads' \subseteq Load
    BY <1>2, <1>7 DEF Disconnect
  <2>. QED
    BY <1>7, <2>1, <2>2, <2>3 DEF Disconnect, catalogue, TypeOK, Load
<1>8. ASSUME NEW st \in [Entities -> {None} \cup SUBSET Effects], SetHass(st)
      PROVE  TypeOK'
  BY <1>3, <1>8 DEF SetHass, catalogue, traffic, acting, TypeOK
<1>9. ASSUME NEW l \in loads, EndLoad(l) PROVE TypeOK'
  <2>1. l.url \in Urls
    BY DEF TypeOK
  <2>2. scenes' \in [url : Urls, ids : (SUBSET Scenes) \ {{}}] \cup {None}
    BY <1>9, <2>1 DEF EndLoad, LoadSucceeds, LoadFails, LoadDropped, Valid, TypeOK
  <2>3. selected' \in Scenes \cup {None} /\ failed' \in BOOLEAN
    BY <1>4, <1>9 DEF EndLoad, LoadSucceeds, LoadFails, LoadDropped, TypeOK
  <2>. QED
    BY <1>9, <2>2, <2>3 DEF EndLoad, acting, TypeOK
<1>10. ASSUME NEW query \in SUBSET Scenes, Search(query) PROVE TypeOK'
  BY <1>4, <1>10 DEF Search, traffic, acting, TypeOK
<1>11. ASSUME NEW s \in Scenes \cup {None}, Select(s) PROVE TypeOK'
  BY <1>0, <1>11 DEF Select, traffic, TypeOK
<1>12. ASSUME NEW e \in Effects \cup {None}, Choose(e) PROVE TypeOK'
  BY <1>12 DEF Choose, catalogue, traffic, acting, TypeOK
<1>13. CASE Reload
  <2>1. config.url \in Urls
    BY <1>13 DEF Reload, TypeOK, Configs
  <2>2. loads' \subseteq Load /\ started' \in 0..MaxLoads /\ loading' \in BOOLEAN
    BY <1>1, <1>13, <2>1 DEF Reload
  <2>. QED
    BY <1>13, <2>2 DEF Reload, acting, TypeOK, Load
<1>14. ASSUME NEW play \in BOOLEAN, Run(play) PROVE TypeOK'
  <2>1. made + 1 \in 0..MaxCalls
    BY <1>0, <1>14 DEF Run
  <2>2. config \in Configs
    BY <1>14 DEF Run, Available, TypeOK
  <2>3. calls' \subseteq [n : 0..MaxCalls, generation : 0..MaxChanges, config : Configs]
    BY <1>14, <2>1, <2>2 DEF Run, TypeOK
  <2>4. shown' \in [n : 0..MaxCalls, config : Configs] \cup {None} /\ made' \in 0..MaxCalls
    BY <1>14, <2>1, <2>2 DEF Run, Report
  <2>5. busy' \in BOOLEAN
    BY <1>14 DEF Run, TypeOK
  <2>. QED
    BY <1>14, <2>3, <2>4, <2>5 DEF Run, catalogue, traffic, TypeOK
<1>15. ASSUME NEW c \in calls, EndCall(c) PROVE TypeOK'
  <2>1. shown' \in [n : 0..MaxCalls, config : Configs] \cup {None}
    BY <1>15 DEF EndCall, Report, TypeOK
  <2>. QED
    BY <1>15, <2>1 DEF EndCall, catalogue, traffic, TypeOK
<1>16. CASE UNCHANGED vars
  BY <1>16 DEF vars, catalogue, traffic, acting, TypeOK
<1>. QED
  BY <1>5, <1>6, <1>7, <1>8, <1>9, <1>10, <1>11, <1>12, <1>13, <1>14, <1>15, <1>16 DEF Next

\* Every step keeps LoadInv: whatever changes the configuration aborts the loads before it.
LEMMA LoadNext == TypeOK /\ LoadInv /\ [Next]_vars => LoadInv'
<1>. SUFFICES ASSUME TypeOK, LoadInv, [Next]_vars
             PROVE  LoadInv'
  OBVIOUS
<1>a. started \in Nat /\ loads \subseteq Load
  BY CardAssumption DEF TypeOK, Numbers, Load, CardAssumption
<1>b. ASSUME loads' = Aborted, started' = started PROVE LoadInv'
  BY <1>a, <1>b, AbortedLoads DEF LoadInv
<1>c. ASSUME loads' \subseteq loads, UNCHANGED <<started, config>>, connected => connected'
      PROVE  LoadInv'
  BY <1>c DEF LoadInv
<1>d. ASSUME NEW url \in Urls, StartLoad(url), connected', config' # None, config'.url = url
      PROVE  LoadInv'
  BY <1>d, StartedLoad DEF LoadInv
<1>1. ASSUME NEW e \in Entities, NEW u \in Urls, SetConfig([entity |-> e, url |-> u])
      PROVE  LoadInv'
  <2>1. [entity |-> e, url |-> u] # None
    BY CardAssumption DEF CardAssumption
  <2>. QED
    BY <1>1, <1>b, <1>d, <2>1 DEF SetConfig
<1>2. CASE Connect
  <2>1. CASE config # None /\ scenes = None /\ ~loading
    <3>1. config.url \in Urls
      BY <2>1 DEF TypeOK, Configs
    <3>. QED
      BY <1>2, <1>d, <2>1, <3>1 DEF Connect
  <2>2. CASE ~(config # None /\ scenes = None /\ ~loading)
    BY <1>2, <1>c, <2>2 DEF Connect, traffic
  <2>. QED
    BY <2>1, <2>2
<1>3. CASE Disconnect
  BY <1>3, <1>b DEF Disconnect
<1>4. ASSUME NEW l \in loads, EndLoad(l) PROVE LoadInv'
  BY <1>4, <1>c DEF EndLoad
<1>5. CASE Reload
  BY <1>5, <1>d DEF Reload, TypeOK, Configs
<1>6. CASE UNCHANGED <<config, connected, loads, started>>
  BY <1>6, <1>c
<1>. QED
  BY <1>1, <1>2, <1>3, <1>4, <1>5, <1>6
     DEF Next, SetHass, Search, Select, Choose, Run, EndCall, traffic, vars

\* Every step keeps CallInv: a new generation has no calls yet.
LEMMA CallNext == TypeOK /\ CallInv /\ [Next]_vars => CallInv'
<1>. SUFFICES ASSUME TypeOK, CallInv, [Next]_vars
             PROVE  CallInv'
  OBVIOUS
<1>a. /\ generation \in Nat /\ made \in Nat
      /\ \A c \in calls : c.n \in Nat /\ c.generation \in Nat
  BY CardAssumption DEF TypeOK, Numbers, CardAssumption
<1>b. ASSUME generation' = generation + 1, busy' = FALSE, calls' = calls, made' = made
      PROVE  CallInv'
  <2>1. \A c \in calls : c.generation <= generation + 1 /\ c.generation # generation + 1
    BY <1>a DEF CallInv
  <2>. QED
    BY <1>a, <1>b, <2>1 DEF CallInv
<1>1. CASE \E e \in Entities, u \in Urls : SetConfig([entity |-> e, url |-> u])
  BY <1>1, <1>b DEF SetConfig
<1>2. CASE Disconnect
  BY <1>2, <1>b DEF Disconnect
<1>3. ASSUME NEW play \in BOOLEAN, Run(play) PROVE CallInv'
  <2>1. /\ made' = made + 1 /\ generation' = generation /\ config' = config
        /\ \A c \in calls : c.generation # generation
    BY <1>3 DEF Run, CallInv
  <2>2. CASE UNCHANGED <<busy, calls>>
    BY <1>3, <1>a, <2>1, <2>2 DEF Run, CallInv
  <2>3. CASE /\ busy' = TRUE
             /\ calls' = calls \cup {[n |-> made + 1, generation |-> generation,
                                      config |-> config]}
    <3>. DEFINE new == [n |-> made + 1, generation |-> generation, config |-> config]
    <3>1. /\ new.n = made + 1 /\ new.generation = generation /\ new.config = config
          /\ calls' = calls \cup {new}
      BY <2>3
    <3>. HIDE DEF new
    <3>2. \A c \in calls : c.n <= made + 1 /\ c.n # made + 1
      BY <1>a DEF CallInv
    <3>3. \A c \in calls' : c \in calls \/ c = new
      BY <3>1
    <3>4. made + 1 <= made' /\ generation <= generation'
      BY <1>a, <2>1
    <3>5. \A c, d \in calls' : c.n = d.n => c = d
      BY <3>1, <3>2, <3>3 DEF CallInv
    <3>6. \A c \in calls' : c.n <= made' /\ c.generation <= generation'
      BY <2>1, <3>1, <3>2, <3>3, <3>4 DEF CallInv
    <3>. QED
      BY <2>1, <2>3, <3>1, <3>3, <3>5, <3>6 DEF CallInv
  <2>. QED
    BY <1>3, <2>2, <2>3 DEF Run
<1>4. ASSUME NEW c \in calls, EndCall(c) PROVE CallInv'
  <2>1. UNCHANGED <<made, generation, config>> /\ calls' = calls \ {c}
    BY <1>4 DEF EndCall
  <2>2. CASE Current(c)
    <3>1. \A d \in calls' : d.generation # generation
      BY <2>1, <2>2 DEF Current, CallInv
    <3>. QED
      BY <1>4, <2>1, <2>2, <3>1 DEF EndCall, CallInv
  <2>3. CASE ~Current(c)
    BY <1>4, <2>1, <2>3 DEF EndCall, Current, CallInv
  <2>. QED
    BY <2>2, <2>3
<1>5. CASE UNCHANGED <<config, generation, busy, calls, made>>
  BY <1>5 DEF CallInv
<1>. QED
  BY <1>1, <1>2, <1>3, <1>4, <1>5
     DEF Next, Connect, SetHass, EndLoad, Search, Select, Choose, Reload, acting, vars

\* Every step keeps OfferInv: a catalogue arrives only from a load that is not aborted.
LEMMA OfferNext == TypeOK /\ LoadInv /\ OfferInv /\ [Next]_vars => OfferInv'
<1>. SUFFICES ASSUME TypeOK, LoadInv, OfferInv, [Next]_vars
             PROVE  OfferInv'
  OBVIOUS
<1>. USE DEF OfferInv, OffersCurrent
<1>a. None \notin Scenes \cup Effects /\ \A url, ids : scenes = [url |-> url, ids |-> ids] =>
        scenes.url = url /\ scenes.ids = ids
  BY CardAssumption DEF CardAssumption
<1>b. \A c, st : KeptEffect(c, st) # None => KeptEffect(c, st) \in Offered(c, st)
  BY DEF KeptEffect
<1>c. \A cat, query : Kept(cat, query) # None =>
        cat # None /\ Kept(cat, query) \in cat.ids \cap query
  BY DEF Kept
<1>1. CASE \E e \in Entities, u \in Urls : SetConfig([entity |-> e, url |-> u])
  <2>1. PICK e \in Entities, u \in Urls : SetConfig([entity |-> e, url |-> u])
    BY <1>1
  <2>2. config' = [entity |-> e, url |-> u] /\ config' # None
    BY <2>1, CardAssumption DEF SetConfig, CardAssumption
  <2>3. states' = states /\ stored' = KeptEffect(config', states) /\ scenes' = None /\ selected' = None
    BY <2>1, <2>2 DEF SetConfig
  <2>4. stored' # None => stored' \in Offered(config', states')
    BY <1>b, <2>3
  <2>. QED
    BY <2>2, <2>3, <2>4
<1>2. ASSUME NEW st \in [Entities -> {None} \cup SUBSET Effects], SetHass(st) PROVE OfferInv'
  BY <1>2, <1>b DEF SetHass, catalogue
<1>3. ASSUME NEW l \in loads, EndLoad(l) PROVE OfferInv'
  <2>1. UNCHANGED <<config, found, states, stored>>
    BY <1>3 DEF EndLoad
  <2>2. ASSUME NEW ids \in SUBSET Scenes, LoadSucceeds(l, ids) PROVE OfferInv'
    <3>1. config # None /\ l.url = config.url
      BY <2>2 DEF LoadSucceeds, Dropped, LoadInv
    <3>2. scenes'.url = config.url
      BY <2>2, <3>1 DEF LoadSucceeds
    <3>3. selected' # None => scenes' # None /\ selected' \in scenes'.ids \cap found
      BY <1>c, <2>2 DEF LoadSucceeds
    <3>. QED
      BY <2>1, <3>1, <3>2, <3>3 DEF Offered
  <2>3. CASE LoadFails(l) \/ LoadDropped(l)
    BY <2>1, <2>3 DEF LoadFails, LoadDropped, Offered
  <2>. QED
    BY <1>3, <2>2, <2>3 DEF EndLoad
<1>4. ASSUME NEW query \in SUBSET Scenes, Search(query) PROVE OfferInv'
  <2>1. selected' # None => scenes # None /\ selected' \in scenes.ids \cap query
    BY <1>4, <1>c DEF Search
  <2>. QED
    BY <1>4, <2>1 DEF Search, Offered
<1>5. ASSUME NEW s \in Scenes \cup {None}, Select(s) PROVE OfferInv'
  BY <1>5 DEF Select, Offered
<1>6. ASSUME NEW e \in Effects \cup {None}, Choose(e) PROVE OfferInv'
  BY <1>6 DEF Choose, catalogue, Offered
<1>7. CASE UNCHANGED <<config, scenes, found, selected, states, stored>>
  BY <1>7 DEF Offered
<1>. QED
  BY <1>1, <1>2, <1>3, <1>4, <1>5, <1>6, <1>7
     DEF Next, Connect, Disconnect, Reload, Run, EndCall, catalogue, vars

\* Every step keeps LoadShown: the load that ends the indicator is the one it is about.
LEMMA ShownNext == TypeOK /\ LoadInv /\ LoadShown /\ [Next]_vars => LoadShown'
<1>. SUFFICES ASSUME TypeOK, LoadInv, LoadShown, [Next]_vars
             PROVE  LoadShown'
  OBVIOUS
<1>. USE DEF LoadShown
<1>0. loading \in BOOLEAN /\ failed \in BOOLEAN /\ connected \in BOOLEAN
  BY DEF TypeOK
<1>a. \A l \in Aborted : l.aborted
  BY AbortedLoads
<1>b. ASSUME NEW url \in Urls, StartLoad(url) PROVE LoadShown'
  BY <1>b, StartedLoad
<1>1. ASSUME NEW e \in Entities, NEW u \in Urls, SetConfig([entity |-> e, url |-> u])
      PROVE  LoadShown'
  <2>1. CASE connected
    BY <1>1, <1>b, <2>1 DEF SetConfig
  <2>2. CASE ~connected
    <3>1. ~loading
      BY <2>2 DEF LoadInv
    <3>. QED
      BY <1>1, <1>a, <2>2, <3>1 DEF SetConfig
  <2>. QED
    BY <2>1, <2>2
<1>2. CASE Connect
  <2>1. CASE config # None /\ scenes = None /\ ~loading
    <3>1. config.url \in Urls
      BY <2>1 DEF TypeOK, Configs
    <3>. QED
      BY <1>2, <1>b, <2>1, <3>1 DEF Connect
  <2>2. CASE ~(config # None /\ scenes = None /\ ~loading)
    BY <1>2, <2>2 DEF Connect, traffic
  <2>. QED
    BY <2>1, <2>2
<1>3. CASE Disconnect
  BY <1>3, <1>a DEF Disconnect
<1>4. ASSUME NEW l \in loads, EndLoad(l) PROVE LoadShown'
  <2>1. loads' = loads \ {l} /\ UNCHANGED <<connected, config>>
    BY <1>4 DEF EndLoad
  <2>2. \A m \in loads : ~m.aborted => m = l \/ ~Owns(l)
    BY DEF Owns, LoadInv
  <2>3. CASE ~l.aborted
    <3>1. Owns(l) /\ loading' = FALSE
      BY <1>4, <2>3 DEF Owns, LoadInv, EndLoad
    <3>2. ASSUME NEW ids \in SUBSET Scenes, LoadSucceeds(l, ids) PROVE scenes' # None
      <4>1. l.url \in Urls
        BY DEF TypeOK
      <4>. QED
        BY <3>2, <4>1, CardAssumption DEF LoadSucceeds, CardAssumption
    <3>3. scenes' # None \/ failed'
      BY <1>4, <2>3, <3>2 DEF EndLoad, LoadFails, LoadDropped, Dropped
    <3>. QED
      BY <2>1, <2>2, <3>1, <3>3
  <2>4. CASE l.aborted
    <3>1. UNCHANGED <<scenes, failed>>
      BY <1>4, <2>4 DEF EndLoad, LoadSucceeds, LoadFails, LoadDropped, Dropped
    <3>2. Owns(l) => ~loading
      BY <2>2, <2>4
    <3>3. loading' <=> loading
      BY <1>4, <3>2 DEF EndLoad
    <3>. QED
      BY <2>1, <2>4, <3>1, <3>3
  <2>. QED
    BY <2>3, <2>4
<1>5. CASE Reload
  BY <1>5, <1>b DEF Reload, TypeOK, Configs
<1>6. CASE UNCHANGED <<config, connected, scenes, failed, loads, loading>>
  BY <1>6
<1>. QED
  BY <1>1, <1>2, <1>3, <1>4, <1>5, <1>6
     DEF Next, SetHass, Search, Select, Choose, Run, EndCall, catalogue, traffic, vars

\* Every step keeps ShownIsOwn: only a call of this generation shows its result, and
\* a change of the configuration takes the last one away.
LEMMA OwnNext == TypeOK /\ CallInv /\ ShownIsOwn /\ [Next]_vars => ShownIsOwn'
<1>. SUFFICES ASSUME TypeOK, CallInv, ShownIsOwn, [Next]_vars
             PROVE  ShownIsOwn'
  OBVIOUS
<1>. USE DEF ShownIsOwn
<1>1. CASE \E e \in Entities, u \in Urls : SetConfig([entity |-> e, url |-> u])
  BY <1>1 DEF SetConfig, AfterSetConfig
<1>2. CASE Disconnect
  BY <1>2 DEF Disconnect
<1>3. ASSUME NEW s \in Scenes \cup {None}, Select(s) PROVE ShownIsOwn'
  BY <1>3 DEF Select
<1>4. ASSUME NEW play \in BOOLEAN, Run(play) PROVE ShownIsOwn'
  BY <1>4 DEF Run, Report
<1>5. ASSUME NEW c \in calls, EndCall(c) PROVE ShownIsOwn'
  BY <1>5 DEF EndCall, Current, Report, CallInv
<1>6. CASE UNCHANGED <<config, busy, made, shown>>
  BY <1>6
<1>. QED
  BY <1>1, <1>2, <1>3, <1>4, <1>5, <1>6
     DEF Next, Connect, SetHass, EndLoad, Search, Choose, Reload, acting, vars

-----------------------------------------------------------------------------
(* The theorems.                                                           *)

\* The inductive invariant holds at first,
LEMMA InvInit == Init => IInv
<1>. SUFFICES ASSUME Init PROVE IInv
  OBVIOUS
<1>1. LoadInv /\ CallInv /\ OfferInv /\ LoadShown /\ ShownIsOwn
  BY DEF Init, LoadInv, CallInv, OfferInv, OffersCurrent, LoadShown, ShownIsOwn
<1>. QED
  BY <1>1, TypeInit DEF IInv

\* and every step keeps it.
LEMMA InvNext == IInv /\ [Next]_vars => IInv'
  BY TypeNext, LoadNext, CallNext, OfferNext, ShownNext, OwnNext DEF IInv

\* Loads and calls keep the numbers, addresses and generations they were made with,
\* and the card tells those of its present configuration from all others.
THEOREM Inductive == Spec => []IInv
  BY InvInit, InvNext, PTL DEF Spec

\* The variables keep their types.
THEOREM TypeCorrect == Spec => []TypeOK
<1>1. IInv => TypeOK
  BY DEF IInv
<1>. QED
  BY <1>1, Inductive, PTL

\* What the card offers to send is always of its present configuration, however late
\* an answer arrives (_loadScenes, _updateOptions, _update).
THEOREM Offers == Spec => []OffersCurrent
<1>1. IInv => OffersCurrent
  BY DEF IInv, OfferInv
<1>. QED
  BY <1>1, Inductive, PTL

\* The card never says that it loads when it does not, nor is left without a
\* catalogue, a load and an error (_loadScenes, connectedCallback).
THEOREM LoadsShown == Spec => []LoadShown
<1>1. IInv => LoadShown
  BY DEF IInv
<1>. QED
  BY <1>1, Inductive, PTL

\* The calls of this generation are one or none, as busy says.
LEMMA InvBusy == IInv => BusyMeansCall
<1>. SUFFICES ASSUME IInv PROVE BusyMeansCall
  OBVIOUS
<1>. DEFINE own == {c \in calls : c.generation = generation}
<1>1. \A c \in calls : c.generation <= generation
  BY DEF IInv, CallInv
<1>2. CASE busy
  <2>1. PICK c \in calls : c.generation = generation
    BY <1>2 DEF IInv, CallInv
  <2>2. own = {c}
    BY <2>1 DEF IInv, CallInv
  <2>3. Cardinality(own) = 1
    BY <2>2, FS_Singleton
  <2>. QED
    BY <1>1, <1>2, <2>3 DEF BusyMeansCall
<1>3. CASE ~busy
  <2>1. own = {}
    BY <1>3 DEF IInv, CallInv
  <2>2. Cardinality(own) = 0
    BY <2>1, FS_EmptySet
  <2>. QED
    BY <1>1, <1>3, <2>2 DEF BusyMeansCall
<1>. QED
  BY <1>2, <1>3

\* The buttons are disabled exactly while a call of this generation is under way (_run).
THEOREM BusyWhileCalling == Spec => []BusyMeansCall
<1>1. IInv => BusyMeansCall
  BY InvBusy
<1>. QED
  BY <1>1, Inductive, PTL

\* The result on show is that of the last call, made for the light and the catalogue
\* that are configured now (_run, setConfig).
THEOREM ShowsOwn == Spec => []ShownIsOwn
<1>1. IInv => ShownIsOwn
  BY DEF IInv
<1>. QED
  BY <1>1, Inductive, PTL

=============================================================================
