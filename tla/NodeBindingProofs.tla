------------------------- MODULE NodeBindingProofs -------------------------
(***************************************************************************)
(* Theorems about NodeBinding: for every sample of objects, whatever the   *)
(* program does with them.  Each kind of step has a lemma that it keeps    *)
(* BInv; what steps have in common comes first.                            *)
(***************************************************************************)
EXTENDS NodeBinding, TLAPS

\* In the initial state there is no object, hence nothing to get wrong.
LEMMA InitBInv == Init => BInv
<1> SUFFICES ASSUME Init PROVE BInv
    OBVIOUS
<1> USE DEF Init
<1>1. BindingTypeOK
  <2>1. 0 \in 0..MaxRefs /\ 0 \in 0..MaxBlocks
    BY BoundsAssumption
  <2>2. refs \in [Objects -> 0..MaxRefs] /\ blocks \in [Proxies -> 0..MaxBlocks]
    BY <2>1
  <2> QED
    BY <2>2 DEF BindingTypeOK
<1>2. UnmadeUnused
  BY DEF UnmadeUnused
<1>3. BlocksPassed /\ OwnedReferenced
  BY DEF BlocksPassed, OwnedReferenced
<1>4. FreedPassed /\ WrappersReferenced
  BY DEF FreedPassed, WrappersReferenced
<1>5. DanglingOnlyIfSharedOrWeak /\ UndefinedOnlyAfterBreach
  BY DEF DanglingOnlyIfSharedOrWeak, UndefinedOnlyAfterBreach
<1> QED
  BY <1>1, <1>2, <1>3, <1>4, <1>5 DEF BInv

----------------------------------------------------------------------------
(* What steps have in common.                                              *)

\* C++ that uses a proxy it owns meets a deleted one only after a breach.
LEMMA UseOfOwned ==
    ASSUME BInv, NEW x \in Proxies, blocks[x] > 0, Use({x}), breaches \subseteq breaches'
    PROVE  UndefinedOnlyAfterBreach'
BY DEF BInv, DanglingOnlyIfSharedOrWeak, UndefinedOnlyAfterBreach, Use

\* So does the program when it uses a proxy that it may have passed before.
LEMMA UseOfPassed ==
    ASSUME BInv, NEW S \in SUBSET Proxies, S \cap collected = {}, Use(S),
           S \cap passed # {} => breaches' # {}
    PROVE  UndefinedOnlyAfterBreach'
BY DEF BInv, FreedPassed, UndefinedOnlyAfterBreach, Use

\* A new object: the parts that a change of made and refs could disturb.
LEMMA MakeKeeps ==
    ASSUME BInv, NEW K, NEW o \in Objects, Make(K, o)
    PROVE  /\ made' \subseteq Objects /\ made \subseteq made'
           /\ o \notin valid \cup passed \cup freed
           /\ refs' \in [Objects -> 0..MaxRefs]
           /\ refs'[o] > 0
           /\ \A p \in Objects \ {o} : refs'[p] = refs[p]
BY BoundsAssumption DEF BInv, Make, BindingTypeOK, UnmadeUnused

\* Passing proxies that are not garbage keeps the account of control blocks.
LEMMA PassKeeps ==
    ASSUME BInv, NEW S \in SUBSET Proxies, S \subseteq made \ collected,
           Pass(S), Own(S), freed' = freed, collected' = collected, made \subseteq made',
           \A x \in Proxies : refs'[x] >= refs[x] /\ refs'[x] \in Nat
    PROVE  /\ blocks' \in [Proxies -> 0..MaxBlocks]
           /\ passed' \subseteq Proxies /\ passed' \subseteq made'
           /\ breaches' \subseteq Breaches
           /\ breaches \subseteq breaches'
           /\ BlocksPassed' /\ OwnedReferenced' /\ FreedPassed'
           /\ DanglingOnlyIfSharedOrWeak'
<1> USE DEF BInv, Pass, Own, Commit
<1>1. \A x \in S : x \in passed => <<"shared", x>> \in breaches'
  BY DEF Breach
<1>2. \A x \in S : refs[x] = 0 => <<"weak", x>> \in breaches'
  BY DEF Breach
<1>3. blocks' \in [Proxies -> 0..MaxBlocks]
  BY BoundsAssumption DEF BindingTypeOK
<1>4. passed' \subseteq Proxies /\ passed' \subseteq made'
  BY DEF BindingTypeOK, UnmadeUnused
<1>5. breaches' \subseteq Breaches
  BY DEF BindingTypeOK, Breaches, Breach, Objects
<1>6. BlocksPassed'
  <2> SUFFICES ASSUME NEW x \in Proxies
               PROVE  /\ blocks'[x] > 0 => x \in passed'
                      /\ blocks'[x] > 1 => <<"shared", x>> \in breaches'
      BY DEF BlocksPassed
  <2>1. blocks[x] \in Nat
    BY BoundsAssumption DEF BindingTypeOK
  <2>2. CASE x \in S
    <3>1. blocks'[x] = blocks[x] + 1 /\ x \in passed'
      BY <2>2
    <3>2. blocks[x] > 0 => <<"shared", x>> \in breaches'
      BY <2>2, <1>1 DEF BlocksPassed
    <3>3. blocks'[x] > 1 => blocks[x] > 0
      BY <2>1, <3>1
    <3> QED
      BY <3>1, <3>2, <3>3
  <2>3. CASE x \notin S
    BY <2>1, <2>3 DEF BlocksPassed
  <2> QED
    BY <2>2, <2>3
<1>7. OwnedReferenced'
  <2> SUFFICES ASSUME NEW x \in Proxies, blocks'[x] > 0,
                      <<"weak", x>> \notin breaches'
               PROVE  refs'[x] > 0
      BY DEF OwnedReferenced
  <2>1. refs[x] \in Nat
    BY DEF BindingTypeOK, Objects
  <2> QED
    BY <1>2, <2>1 DEF OwnedReferenced, BindingTypeOK
<1>8. FreedPassed'
  BY DEF FreedPassed
<1>9. DanglingOnlyIfSharedOrWeak'
  <2> SUFFICES ASSUME NEW x \in freed \cap Proxies, blocks'[x] > 0
               PROVE  <<"shared", x>> \in breaches' \/ <<"weak", x>> \in breaches'
      BY DEF DanglingOnlyIfSharedOrWeak
  <2>1. CASE x \in S
    BY <2>1, <1>1 DEF FreedPassed
  <2>2. CASE x \notin S
    BY <2>2 DEF DanglingOnlyIfSharedOrWeak, BindingTypeOK
  <2> QED
    BY <2>1, <2>2
<1> QED
  BY <1>3, <1>4, <1>5, <1>6, <1>7, <1>8, <1>9

\* A step that changes neither objects nor blocks keeps what is said of them.
LEMMA AccountKept ==
    ASSUME BInv, UNCHANGED <<objectVars, blocks, freed, passed, breaches>>,
           native' \in BOOLEAN, fault' \in {"none", "undefined", "aborted"},
           UndefinedOnlyAfterBreach'
    PROVE  BInv'
BY DEF BInv, objectVars, BindingTypeOK, UnmadeUnused, BlocksPassed, OwnedReferenced,
       FreedPassed, WrappersReferenced, DanglingOnlyIfSharedOrWeak

----------------------------------------------------------------------------
(* Making objects, losing them, counting references.                       *)

\* new keeps the invariant.
LEMMA NewBInv ==
    ASSUME BInv, NEW K, NEW o \in Objects, New(K, o)
    PROVE  BInv'
<1> USE DEF BInv, New
<1>1. BindingTypeOK'
  BY MakeKeeps DEF BindingTypeOK
<1>2. UnmadeUnused'
  BY MakeKeeps DEF UnmadeUnused
<1>3. BlocksPassed' /\ FreedPassed' /\ DanglingOnlyIfSharedOrWeak'
       /\ UndefinedOnlyAfterBreach'
  BY DEF BlocksPassed, FreedPassed, DanglingOnlyIfSharedOrWeak, UndefinedOnlyAfterBreach
<1>4. OwnedReferenced'
  BY MakeKeeps DEF OwnedReferenced, Objects
<1>5. WrappersReferenced'
  BY MakeKeeps DEF WrappersReferenced, BindingTypeOK, Objects
<1> QED
  BY <1>1, <1>2, <1>3, <1>4, <1>5

\* The garbage collector deletes nothing that C++ owns without a breach, and no
\* wrapper that has an implementation.
LEMMA CollectBInv ==
    ASSUME BInv, NEW o \in Objects, Collect(o)
    PROVE  BInv'
<1> USE DEF BInv, Collect
<1>1. BindingTypeOK' /\ UnmadeUnused' /\ BlocksPassed' /\ OwnedReferenced'
       /\ FreedPassed' /\ UndefinedOnlyAfterBreach'
  BY DEF BindingTypeOK, UnmadeUnused, BlocksPassed, OwnedReferenced, FreedPassed,
         UndefinedOnlyAfterBreach
<1>2. WrappersReferenced'
  BY DEF WrappersReferenced
<1>3. DanglingOnlyIfSharedOrWeak'
  BY DEF DanglingOnlyIfSharedOrWeak, OwnedReferenced
<1> QED
  BY <1>1, <1>2, <1>3

\* addRef and removeRef change the references of a proxy, and mark what they
\* break.
LEMMA RefsBInv ==
    ASSUME BInv, NEW K, NEW x \in Proxies, addRef(K, x) \/ removeRef(K, x)
    PROVE  BInv'
<1> USE DEF BInv
<1>1. PICK kinds \in SUBSET {"weak", "unbalanced"} :
         /\ OnProxy(K, x, kinds)
         /\ Use({x}) \/ fault' = "aborted"
         /\ refs' \in [Objects -> 0..MaxRefs]
         /\ \A o \in Objects \ {x} : refs'[o] = refs[o]
         /\ blocks[x] > 0 => \/ refs'[x] > 0 \/ "weak" \in kinds
                             \/ refs'[x] = refs[x]
  <2>1. x \in Objects /\ refs[x] \in Nat /\ refs \in [Objects -> 0..MaxRefs]
    BY DEF BindingTypeOK, Objects
  <2>2. CASE addRef(K, x)
    BY <2>1, <2>2, BoundsAssumption DEF addRef
  <2>3. CASE removeRef(K, x)
    BY <2>1, <2>3, BoundsAssumption DEF removeRef
  <2> QED
    BY <2>2, <2>3
<1>2. breaches' = breaches \cup ((kinds \cup IF x \in passed THEN {"touched"} ELSE {}) \X {x})
  BY <1>1 DEF OnProxy, Commit
<1>3. breaches \subseteq breaches' /\ breaches' \subseteq Breaches
  BY <1>2 DEF BindingTypeOK, Breaches, Objects
<1>4. UNCHANGED <<made, valid, blocks, freed, collected, native, passed>>
  BY <1>1 DEF OnProxy
<1>5. UndefinedOnlyAfterBreach'
  <2>1. x \notin collected
    BY <1>1 DEF OnProxy, HasProxy
  <2>2. x \in passed => <<"touched", x>> \in breaches'
    BY <1>2
  <2> QED
    BY <1>1, <2>1, <2>2, UseOfPassed DEF UndefinedOnlyAfterBreach
<1>6. BindingTypeOK'
  BY <1>1, <1>3, <1>4 DEF BindingTypeOK, Use
<1>7. UnmadeUnused' /\ FreedPassed'
  BY <1>4 DEF UnmadeUnused, FreedPassed
<1>8. BlocksPassed' /\ DanglingOnlyIfSharedOrWeak'
  BY <1>3, <1>4 DEF BlocksPassed, DanglingOnlyIfSharedOrWeak
<1>9. OwnedReferenced'
  <2>1. "weak" \in kinds => <<"weak", x>> \in breaches'
    BY <1>2
  <2> QED
    BY <1>1, <1>3, <1>4, <2>1 DEF OwnedReferenced, Objects
<1>10. WrappersReferenced'
  BY <1>1, <1>4, ObjectsAssumption DEF WrappersReferenced, BindingTypeOK, Objects
<1> QED
  BY <1>5, <1>6, <1>7, <1>8, <1>9, <1>10

----------------------------------------------------------------------------
(* Control blocks and calls.                                               *)

\* Letting go of a control block deletes the proxy, which no other block owns
\* unless it was passed twice.
LEMMA ReleaseBInv ==
    ASSUME BInv, NEW x \in Proxies, Release(x)
    PROVE  BInv'
<1> USE DEF BInv, Release, Delete, objectVars
<1>1. blocks[x] \in Nat /\ x \in passed
  <2>1. blocks[x] \in Nat
    BY BoundsAssumption DEF BindingTypeOK
  <2> QED
    BY <2>1 DEF BlocksPassed
<1>2. BindingTypeOK'
  BY <1>1, BoundsAssumption DEF BindingTypeOK, Use, Objects
<1>3. UnmadeUnused' /\ FreedPassed'
  BY <1>1 DEF UnmadeUnused, FreedPassed
<1>4. \A y \in Proxies : blocks'[y] = IF y = x THEN blocks[x] - 1 ELSE blocks[y]
  BY DEF BindingTypeOK
<1>5. BlocksPassed' /\ OwnedReferenced'
  BY <1>1, <1>4 DEF BlocksPassed, OwnedReferenced
<1>6. WrappersReferenced'
  BY ObjectsAssumption DEF WrappersReferenced, BindingTypeOK
<1>7. DanglingOnlyIfSharedOrWeak'
  BY <1>1, <1>4 DEF DanglingOnlyIfSharedOrWeak, BlocksPassed
<1>8. UndefinedOnlyAfterBreach'
  BY UseOfOwned
<1> QED
  BY <1>2, <1>3, <1>5, <1>6, <1>7, <1>8

\* A call of a method without a proxy or C++ object among its results or arguments.
LEMMA CallBInv ==
    ASSUME BInv, NEW K, NEW x \in Proxies, CallVoid(K, x) \/ CallForValue(K, x)
    PROVE  BInv'
<1>1. UNCHANGED <<objectVars, blocks, freed, native, passed, breaches>>
  BY DEF CallVoid, CallForValue
<1>2. blocks[x] > 0 /\ (Use({x}) \/ fault' = "aborted")
  BY DEF CallVoid, CallForValue, Holds
<1>3. UndefinedOnlyAfterBreach'
  BY <1>1, <1>2, UseOfOwned DEF UndefinedOnlyAfterBreach
<1> QED
  BY <1>1, <1>2, <1>3, AccountKept DEF BInv, BindingTypeOK, Use

\* Wrapping a C++ object: what it adds to a step that changes no reference.
LEMMA WrapKeeps ==
    ASSUME BInv, NEW K, NEW w \in Wrappers, Wrap(K, w), freed' = freed
    PROVE  /\ made' \subseteq Objects /\ made \subseteq made'
           /\ refs' \in [Objects -> 0..MaxRefs]
           /\ \A x \in Proxies : refs'[x] = refs[x]
           /\ valid' \subseteq Wrappers /\ valid' \subseteq made'
           /\ WrappersReferenced'
<1> USE DEF Wrap
<1>1. w \in Objects
  BY DEF Objects
<1>2. made' \subseteq Objects /\ made \subseteq made'
       /\ refs' \in [Objects -> 0..MaxRefs]
  BY <1>1, MakeKeeps
<1>3. \A x \in Proxies : refs'[x] = refs[x]
  BY <1>1, MakeKeeps, ObjectsAssumption DEF Objects
<1>4. valid' \subseteq Wrappers /\ valid' \subseteq made'
  BY DEF BInv, BindingTypeOK, UnmadeUnused, Make
<1>5. WrappersReferenced'
  BY <1>1, MakeKeeps DEF BInv, WrappersReferenced, BindingTypeOK, Objects
<1> QED
  BY <1>2, <1>3, <1>4, <1>5

\* A call with a C++ object among its arguments.
LEMMA CallWithBInv ==
    ASSUME BInv, NEW K, NEW x \in Proxies, NEW W, NEW w \in Wrappers,
           CallWith(K, x, W, w)
    PROVE  BInv'
<1> USE DEF BInv, CallWith
<1>1. BindingTypeOK'
  BY WrapKeeps DEF BindingTypeOK, Use
<1>2. UnmadeUnused'
  BY WrapKeeps DEF UnmadeUnused
<1>3. BlocksPassed' /\ FreedPassed' /\ DanglingOnlyIfSharedOrWeak'
  BY DEF BlocksPassed, FreedPassed, DanglingOnlyIfSharedOrWeak
<1>4. OwnedReferenced'
  BY WrapKeeps DEF OwnedReferenced
<1>5. WrappersReferenced'
  BY WrapKeeps
<1>6. UndefinedOnlyAfterBreach'
  BY UseOfOwned DEF Holds
<1> QED
  BY <1>1, <1>2, <1>3, <1>4, <1>5, <1>6

\* A call that brings a proxy.
LEMMA CallForProxyBInv ==
    ASSUME BInv, NEW K, NEW x \in Proxies, NEW R, NEW r \in Proxies,
           CallForProxy(K, x, R, r)
    PROVE  BInv'
<1>1. UNCHANGED <<objectVars, freed, native>> /\ blocks[x] > 0
  BY DEF CallForProxy, Holds
<1>2. CASE HasProxy(R, r) /\ Use({x}) /\ Pass({r}) /\ Own({r})
  <2>1. {r} \in SUBSET Proxies /\ {r} \subseteq made \ collected
    BY <1>2 DEF HasProxy
  <2>2. \A y \in Proxies : refs'[y] >= refs[y] /\ refs'[y] \in Nat
    BY <1>1 DEF BInv, BindingTypeOK, Objects, objectVars
  <2>3. /\ blocks' \in [Proxies -> 0..MaxBlocks]
        /\ passed' \subseteq Proxies /\ passed' \subseteq made'
        /\ breaches' \subseteq Breaches
        /\ breaches \subseteq breaches'
        /\ BlocksPassed' /\ OwnedReferenced' /\ FreedPassed'
        /\ DanglingOnlyIfSharedOrWeak'
    BY <1>1, <1>2, <2>1, <2>2, PassKeeps DEF objectVars
  <2>4. UndefinedOnlyAfterBreach'
    BY <1>1, <1>2, <2>3, UseOfOwned
  <2>5. BindingTypeOK'
    BY <1>1, <1>2, <2>3 DEF BInv, BindingTypeOK, objectVars, Use
  <2>6. UnmadeUnused' /\ WrappersReferenced'
    BY <1>1, <2>3 DEF BInv, UnmadeUnused, WrappersReferenced, objectVars
  <2> QED
    BY <2>3, <2>4, <2>5, <2>6 DEF BInv
<1>3. CASE fault' = "aborted" /\ UNCHANGED <<blocks, passed, breaches>>
  BY <1>1, <1>3, AccountKept DEF BInv, BindingTypeOK, UndefinedOnlyAfterBreach
<1> QED
  BY <1>2, <1>3 DEF CallForProxy

----------------------------------------------------------------------------
(* Methods of C++ objects.                                                 *)

\* Entering C++ code, or returning from it.
LEMMA MethodBInv ==
    ASSUME BInv, (\E K, w : Method(K, w)) \/ Return
    PROVE  BInv'
BY AccountKept DEF Method, Return, BInv, BindingTypeOK, UndefinedOnlyAfterBreach

\* The binding takes ownership of both arguments of the constructor.
LEMMA ApiNewBInv ==
    ASSUME BInv, NEW w \in Wrappers, NEW x \in Proxies, NEW y \in Proxies,
           NJSItfApi_New(w, x, y)
    PROVE  BInv'
<1>1. /\ Wrap("Api", w) /\ Pass({x, y}) /\ Own({x, y})
      /\ native' = TRUE
      /\ UNCHANGED <<freed, collected, fault>>
  BY DEF NJSItfApi_New
<1>2. {x, y} \in SUBSET Proxies /\ {x, y} \subseteq made \ collected
  BY DEF NJSItfApi_New, HasProxy
<1>3. /\ made' \subseteq Objects /\ made \subseteq made'
      /\ refs' \in [Objects -> 0..MaxRefs]
      /\ \A p \in Proxies : refs'[p] = refs[p]
      /\ valid' \subseteq Wrappers /\ valid' \subseteq made'
      /\ WrappersReferenced'
  BY <1>1, WrapKeeps
<1>4. \A p \in Proxies : refs'[p] >= refs[p] /\ refs'[p] \in Nat
  BY <1>3 DEF BInv, BindingTypeOK, Objects
<1>5. /\ blocks' \in [Proxies -> 0..MaxBlocks]
      /\ passed' \subseteq Proxies /\ passed' \subseteq made'
      /\ breaches' \subseteq Breaches
      /\ breaches \subseteq breaches'
      /\ BlocksPassed' /\ OwnedReferenced' /\ FreedPassed'
      /\ DanglingOnlyIfSharedOrWeak'
  BY <1>1, <1>2, <1>3, <1>4, PassKeeps
<1>6. BindingTypeOK'
  BY <1>1, <1>3, <1>5 DEF BInv, BindingTypeOK
<1>7. UnmadeUnused' /\ UndefinedOnlyAfterBreach'
  BY <1>1, <1>3, <1>5 DEF BInv, UnmadeUnused, UndefinedOnlyAfterBreach
<1> QED
  BY <1>3, <1>5, <1>6, <1>7 DEF BInv

\* A method of the Api that makes a handle.
LEMMA HandleMadeBInv ==
    ASSUME BInv, NEW w \in Wrappers, NEW h \in Wrappers,
           NJSItfApi_observer_transaction_list(w, h)
    PROVE  BInv'
<1> USE DEF BInv, NJSItfApi_observer_transaction_list
<1>1. BindingTypeOK'
  BY WrapKeeps DEF BindingTypeOK
<1>2. UnmadeUnused'
  BY WrapKeeps DEF UnmadeUnused
<1>3. BlocksPassed' /\ FreedPassed' /\ DanglingOnlyIfSharedOrWeak'
       /\ UndefinedOnlyAfterBreach'
  BY DEF BlocksPassed, FreedPassed, DanglingOnlyIfSharedOrWeak, UndefinedOnlyAfterBreach
<1>4. OwnedReferenced' /\ WrappersReferenced'
  BY WrapKeeps DEF OwnedReferenced
<1> QED
  BY <1>1, <1>2, <1>3, <1>4

\* start() of a handle that has an implementation owns its arguments; start() of
\* one that has none deletes them, which must not have been passed before.
LEMMA StartBInv ==
    ASSUME BInv, NEW w \in Wrappers, NEW x \in Proxies, NEW y \in Proxies,
           NJSItfTransactionListVmHandle_start(w, x, y)
    PROVE  BInv'
<1>1. Pass({x, y}) /\ UNCHANGED objectVars /\ fault = "none"
  BY DEF NJSItfTransactionListVmHandle_start, HasProxy
<1>2. {x, y} \in SUBSET Proxies /\ {x, y} \subseteq made \ collected
  BY DEF NJSItfTransactionListVmHandle_start, HasProxy
<1>3. CASE w \in valid
  <2>1. Own({x, y}) /\ native' = TRUE /\ UNCHANGED <<freed, fault>>
    BY <1>3 DEF NJSItfTransactionListVmHandle_start
  <2>2. \A p \in Proxies : refs'[p] >= refs[p] /\ refs'[p] \in Nat
    BY <1>1 DEF BInv, BindingTypeOK, Objects, objectVars
  <2>3. /\ blocks' \in [Proxies -> 0..MaxBlocks]
        /\ passed' \subseteq Proxies /\ passed' \subseteq made'
        /\ breaches' \subseteq Breaches
        /\ breaches \subseteq breaches'
        /\ BlocksPassed' /\ OwnedReferenced' /\ FreedPassed'
        /\ DanglingOnlyIfSharedOrWeak'
    BY <1>1, <1>2, <2>1, <2>2, PassKeeps DEF objectVars
  <2>4. BindingTypeOK'
    BY <1>1, <2>1, <2>3 DEF BInv, BindingTypeOK, objectVars
  <2>5. UnmadeUnused' /\ WrappersReferenced' /\ UndefinedOnlyAfterBreach'
    BY <1>1, <2>1, <2>3
    DEF BInv, UnmadeUnused, WrappersReferenced, UndefinedOnlyAfterBreach, objectVars
  <2> QED
    BY <2>3, <2>4, <2>5 DEF BInv
<1>4. CASE w \notin valid
  <2>1. Delete({x, y}) /\ UNCHANGED <<blocks, native>>
    BY <1>4 DEF NJSItfTransactionListVmHandle_start
  <2>2. passed' = passed \cup {x, y} /\ breaches \subseteq breaches'
    BY <1>1 DEF Pass, Commit
  <2>3. \A p \in {x, y} \cap passed : <<"shared", p>> \in breaches'
    BY <1>1 DEF Pass, Commit, Breach
  <2>4. UndefinedOnlyAfterBreach'
    BY <1>2, <2>1, <2>3, UseOfPassed DEF Delete
  <2>5. breaches' \subseteq Breaches
    BY <1>1, <1>2 DEF Pass, Commit, Breach, Breaches, BInv, BindingTypeOK, Objects
  <2>6. BindingTypeOK'
    BY <1>1, <1>2, <2>1, <2>2, <2>5 DEF BInv, BindingTypeOK, objectVars, Delete, Use, Objects
  <2>7. UnmadeUnused' /\ FreedPassed'
    BY <1>1, <1>2, <2>1, <2>2 DEF BInv, UnmadeUnused, FreedPassed, objectVars, Delete
  <2>8. BlocksPassed' /\ OwnedReferenced'
    BY <1>1, <2>1, <2>2 DEF BInv, BlocksPassed, OwnedReferenced, objectVars
  <2>9. WrappersReferenced'
    BY <1>1, <1>2, <2>1, ObjectsAssumption
    DEF BInv, BindingTypeOK, WrappersReferenced, objectVars, Delete
  <2>10. DanglingOnlyIfSharedOrWeak'
    BY <2>1, <2>2, <2>3 DEF BInv, BlocksPassed, DanglingOnlyIfSharedOrWeak, Delete
  <2> QED
    BY <2>4, <2>6, <2>7, <2>8, <2>9, <2>10 DEF BInv
<1> QED
  BY <1>3, <1>4

\* A row that does not exist is a breach.
LEMMA RowBInv ==
    ASSUME BInv, NEW w \in Wrappers, NJSItfTransactionListVm_getTransaction(w)
    PROVE  BInv'
<1>1. CASE Method("TransactionListVm", w)
  BY <1>1, MethodBInv
<1>2. CASE /\ Commit(Breach("index", {w}))
           /\ fault' = "undefined"
           /\ UNCHANGED <<objectVars, blocks, freed, native, passed>>
  <2> USE DEF BInv, objectVars
  <2>1. breaches \subseteq breaches' /\ breaches' # {} /\ breaches' \subseteq Breaches
    <3>1. breaches' = breaches \cup {<<"index", w>>}
      BY <1>2 DEF Commit, Breach
    <3>2. <<"index", w>> \in Breaches
      BY DEF Breaches, Objects
    <3> QED
      BY <3>1, <3>2 DEF BindingTypeOK
  <2>2. native' \in BOOLEAN
    BY <1>2 DEF Method, BindingTypeOK
  <2>3. BindingTypeOK'
    BY <1>2, <2>1, <2>2 DEF BindingTypeOK
  <2>4. UnmadeUnused' /\ FreedPassed' /\ WrappersReferenced'
    BY <1>2 DEF UnmadeUnused, FreedPassed, WrappersReferenced
  <2>5. /\ BlocksPassed' /\ OwnedReferenced'
        /\ DanglingOnlyIfSharedOrWeak' /\ UndefinedOnlyAfterBreach'
    BY <1>2, <2>1
    DEF BlocksPassed, OwnedReferenced, DanglingOnlyIfSharedOrWeak, UndefinedOnlyAfterBreach
  <2> QED
    BY <2>3, <2>4, <2>5
<1> QED
  BY <1>1, <1>2 DEF NJSItfTransactionListVm_getTransaction

----------------------------------------------------------------------------
(* The theorems.                                                           *)

\* Every step keeps the invariant.
LEMMA NextBInv == BInv /\ [Next]_vars => BInv'
<1> SUFFICES ASSUME BInv, [Next]_vars PROVE BInv'
    OBVIOUS
<1>1. ASSUME NEW x \in Proxies, ProgramStep(x) PROVE BInv'
  <2>1. x \in Objects
    BY DEF Objects
  <2> QED
    BY <1>1, <2>1, NewBInv, RefsBInv
    DEF ProgramStep, ProxyStep, NJSItfHttp, NJSItfThreadDispatcher, NJSItfExecutionContext,
        NJSItfLock, NJSItfHandleResponse, NJSItfTransactionListVmObserver
<1>2. ASSUME NEW x \in Proxies, NativeStep(x) PROVE BInv'
  BY <1>2, ReleaseBInv, CallBInv, CallForProxyBInv, CallWithBInv
  DEF NativeStep, NJSItfLock_lock_unlock, NJSItfLock_tryLock, NJSItfHandleResponse_respond,
      NJSItfThreadDispatcher_contexts, NJSItfThreadDispatcher_newLock, NJSItfHttp_get,
      NJSItfExecutionContext_execute_delay, NJSItfTransactionListVmObserver_on_update
<1>3. ASSUME NEW w \in Wrappers, WrapperStep(w) PROVE BInv'
  <2>1. w \in Objects
    BY DEF Objects
  <2> QED
    BY <1>3, <2>1, NewBInv, MethodBInv, ApiNewBInv, StartBInv, HandleMadeBInv, RowBInv
    DEF WrapperStep, NJSItfApi_get_transactions, NJSItfTransactionListVmHandle_New,
        NJSItfTransactionListVmHandle_stop, NJSItfTransactionListVm_New,
        NJSItfTransactionListVm_count, NJSItfRunnable, NJSItfHttpCallback
<1>4. CASE UNCHANGED vars
  BY <1>4
  DEF vars, BInv, BindingTypeOK, UnmadeUnused, BlocksPassed, OwnedReferenced, FreedPassed,
      WrappersReferenced, DanglingOnlyIfSharedOrWeak, UndefinedOnlyAfterBreach
<1> QED
  BY <1>1, <1>2, <1>3, <1>4, CollectBInv, MethodBInv DEF Next

\* Whatever a program does with the binding, a control block stands for one
\* passing of one proxy (NJSItfTransactionListVmHandleCpp.cpp 10-56).
THEOREM BInvHolds == Spec => []BInv
<1>1. Init => BInv
  BY InitBInv
<1>2. BInv /\ [Next]_vars => BInv'
  BY NextBInv
<1> QED
  BY <1>1, <1>2, PTL DEF Spec

\* C++ is left with a pointer to a deleted proxy only if the program passed it
\* twice or left it without a reference (NJSItfTransactionListVmHandleCpp.cpp
\* 22-24, 43-45).
THEOREM DanglingNeedsBreach == Spec => []DanglingOnlyIfSharedOrWeak
<1>1. BInv => DanglingOnlyIfSharedOrWeak
  BY DEF BInv
<1> QED
  BY <1>1, BInvHolds, PTL

\* A program that keeps the rules never meets undefined behaviour
\* (NJSItfThreadDispatcher.cpp 32-33, 120-130).
THEOREM RulesSuffice == Spec => []UndefinedOnlyAfterBreach
<1>1. BInv => UndefinedOnlyAfterBreach
  BY DEF BInv
<1> QED
  BY <1>1, BInvHolds, PTL

\* A C++ object that JavaScript was given is never deleted
\* (NJSItfRunnableCpp.cpp 50-69).
THEOREM WrappersStay == Spec => []WrappersLive
<1>1. BInv => WrappersLive
  BY DEF BInv, WrappersReferenced, WrappersLive
<1> QED
  BY <1>1, BInvHolds, PTL
=============================================================================
