-------------------------- MODULE DashboardProofs --------------------------
(***************************************************************************)
(* Proofs about module Dashboard, for any number of requests and forms,    *)
(* any limits, also negative ones, and any sizes.                          *)
(***************************************************************************)
EXTENDS Dashboard, TLAPS

LimitType == [body : {l.body : l \in Limits}, header : {l.header : l \in Limits}]

(* The request limiter's lock: one form holds it, and the limit it has     *)
(* stored is that of its form.                                             *)
Holding(p) == post[p].at \in {"body", "header"}

LockOK ==
  /\ \A p, q \in Posts : Holding(p) /\ Holding(q) => p = q
  /\ \A p \in Posts :
       /\ post[p].at = "header" => limits.body = post[p].form.body
       /\ post[p].at = "body" => limits.header = post[p].form.header

(* What the checks of the middleware have told of the request q, while the *)
(* limits were at most w and are l now.                                    *)
CheckedOK(q, w, l, low) ==
  /\ l.body <= w.body /\ l.header <= w.header
  /\ q.at \in {"length", "cap"} => q.header <= w.header
  /\ q.at = "cap" => q.length <= w.body /\ (q.length <= l.body \/ low)
  /\ q.at = "passed" /\ q.cap # NoCap =>
       /\ q.header <= w.header /\ q.length <= w.body
       /\ q.cap <= GreaterOf(0, w.body)
       /\ q.cap < q.length => low

ChecksOK == \A r \in Requests : CheckedOK(req[r], widest[r], limits, lowered[r])

(* Behind settings that shut everybody out no form is under way, and none  *)
(* gets past the check that refuses it.                                    *)
ShutOK ==
  locked =>
    /\ Shut
    /\ \A p \in Posts : post[p].at = "idle"
    /\ \A r \in Requests :
         /\ req[r].at \in {"idle", "header", "length", "refused"}
         /\ rate.enabled /\ rate.max <= 0 => req[r].at = "idle"
         /\ req[r].at \in {"header", "length"} => req[r].header >= 0
         /\ req[r].at = "length" => req[r].header <= limits.header

IInv == TypeOK /\ LimitsWhole /\ LockOK /\ ChecksOK /\ ShutOK

----------------------------------------------------------------------------
(* Limits are numbers, and a limit of each kind makes limits.              *)
LEMMA LimitNumbers ==
  ASSUME NEW l \in LimitType
  PROVE  l.body \in Int /\ l.header \in Int
BY LimitsAssumption DEF LimitType

LEMMA FormLimits ==
  ASSUME NEW l \in LimitType, NEW form \in Limits
  PROVE  /\ [l EXCEPT !.body = form.body] \in LimitType
         /\ [l EXCEPT !.header = form.header] \in LimitType
BY DEF LimitType

LEMMA WholeForm ==
  ASSUME NEW l \in LimitType, NEW form \in Limits
  PROVE  /\ l.body = form.body => [l EXCEPT !.header = form.header] = form
         /\ l.header = form.header => [l EXCEPT !.body = form.body] = form
BY LimitsAssumption DEF LimitType

LEMMA SizeNumbers ==
  /\ \A n \in Sizes \cup {0} : n \in Int /\ n >= 0
  /\ \A n \in Sizes \cup {Unknown} : n \in Int /\ n >= Unknown
  /\ \A n \in Nat \cup {NoCap} : n \in Int
<1>1. \A n \in Sizes : n \in Nat
  BY SizesAssumption
<1> QED
  BY <1>1 DEF Unknown, NoCap

LEMMA InitIInv == Init => IInv
<1> SUFFICES ASSUME Init PROVE IInv
  OBVIOUS
<1> USE DEF Init, LimiterInit
<1>1. limits \in LimitType /\ limits.body \in Int /\ limits.header \in Int
  BY LimitsAssumption DEF LimitType
<1>2. TypeOK
  <2>1. NoForm \in [at : {"idle", "rateEnable", "rateLimits", "enable", "limits",
                          "body", "header"}, form : Limits]
    BY DEF NoForm
  <2>2. NoRequest \in [at : {"idle", "header", "length", "cap", "passed", "refused"},
                       header : Sizes \cup {0}, length : Sizes \cup {Unknown},
                       cap : Nat \cup {NoCap}]
    BY DEF NoRequest
  <2>3. widest \in [Requests -> [body : Int, header : Int]]
    BY <1>1, LimitsAssumption
  <2> QED
    <3>1. /\ post \in [Posts -> [at : {"idle", "rateEnable", "rateLimits", "enable", "limits",
                                   "body", "header"}, form : Limits]]
          /\ req \in [Requests ->
               [at : {"idle", "header", "length", "cap", "passed", "refused"},
                header : Sizes \cup {0}, length : Sizes \cup {Unknown},
                cap : Nat \cup {NoCap}]]
      BY <2>1, <2>2
    <3>2. locked \in BOOLEAN
      BY DEF Shut
    <3> QED
      BY <1>1, <2>3, <3>1, <3>2 DEF TypeOK, LimiterTypeOK, LimitType
<1>3. LimitsWhole /\ LockOK
  BY DEF LimitsWhole, LockOK, Holding, NoForm
<1>4. ChecksOK
  <2> SUFFICES ASSUME NEW r \in Requests
               PROVE  CheckedOK(req[r], widest[r], limits, lowered[r])
    BY DEF ChecksOK
  <2>1. req[r].at = "idle" /\ widest[r] = limits
    BY DEF NoRequest
  <2> QED
    BY <1>1, <2>1 DEF CheckedOK
<1>5. ShutOK
  BY DEF ShutOK, NoForm, NoRequest
<1> QED
  BY <1>2, <1>3, <1>4, <1>5 DEF IInv

----------------------------------------------------------------------------
(* A store of one limit: it is of the form, and what is known of the       *)
(* requests stays true.                                                    *)
LEMMA StoreFacts ==
  ASSUME LimiterTypeOK, NEW new \in LimitType, Store(new)
  PROVE  /\ limits' = new /\ enabled' = enabled /\ req' = req
         /\ widest' \in [Requests -> [body : Int, header : Int]]
         /\ lowered' \in [Requests -> BOOLEAN]
         /\ \A r \in Requests :
              /\ widest[r].body <= widest'[r].body /\ new.body <= widest'[r].body
              /\ widest[r].header <= widest'[r].header /\ new.header <= widest'[r].header
              /\ lowered[r] \/ new.body < limits.body => lowered'[r]
<1>1. /\ limits' = new /\ enabled' = enabled /\ req' = req
      /\ lowered' \in [Requests -> BOOLEAN]
      /\ \A r \in Requests : lowered[r] \/ new.body < limits.body => lowered'[r]
  BY DEF Store, LimiterTypeOK
<1>2. new.body \in Int /\ new.header \in Int
  BY LimitNumbers
<1>3. ASSUME NEW r \in Requests
      PROVE  /\ widest'[r] \in [body : Int, header : Int]
             /\ widest[r].body <= widest'[r].body /\ new.body <= widest'[r].body
             /\ widest[r].header <= widest'[r].header /\ new.header <= widest'[r].header
  <2>1. widest[r].body \in Int /\ widest[r].header \in Int
    BY DEF LimiterTypeOK
  <2>2. widest'[r] = [body   |-> GreaterOf(widest[r].body, new.body),
                      header |-> GreaterOf(widest[r].header, new.header)]
    BY DEF Store
  <2> QED
    BY <1>2, <2>1, <2>2 DEF GreaterOf
<1>4. widest' \in [Requests -> [body : Int, header : Int]]
  BY <1>3 DEF Store
<1> QED
  BY <1>1, <1>3, <1>4

LEMMA StoresNew ==
  ASSUME LimiterTypeOK, NEW p \in Posts, StoreBody(p) \/ StoreHeader(p)
  PROVE  /\ limits' \in LimitType
         /\ Store(limits')
         /\ \/ limits' = [limits EXCEPT !.body = post[p].form.body]
            \/ limits' = [limits EXCEPT !.header = post[p].form.header]
<1>1. limits \in LimitType /\ post[p].form \in Limits
  BY DEF LimiterTypeOK, LimitType
<1> QED
  BY <1>1, FormLimits DEF StoreBody, StoreHeader, Store

PostPlaces == {"idle", "rateEnable", "rateLimits", "enable", "limits", "body", "header"}
PostType == [at : PostPlaces, form : Limits]

RequestPlaces == {"idle", "header", "length", "cap", "passed", "refused"}
RequestType == [at : RequestPlaces, header : Sizes \cup {0}, length : Sizes \cup {Unknown},
                cap : Nat \cup {NoCap}]

LEMMA Types ==
  ASSUME LimiterTypeOK
  PROVE  /\ post \in [Posts -> PostType] /\ req \in [Requests -> RequestType]
         /\ limits \in LimitType
BY DEF LimiterTypeOK, PostType, PostPlaces, RequestType, RequestPlaces, LimitType

(* A form goes on, or is done.                                             *)
PostMoves(p) ==
  \/ \E place \in PostPlaces : post' = [post EXCEPT ![p].at = place]
  \/ post' = [post EXCEPT ![p] = NoForm]
  \/ \E form \in Limits, place \in PostPlaces : post' = [post EXCEPT ![p] = [at |-> place, form |-> form]]

LEMMA PostTypeStep ==
  ASSUME LimiterTypeOK, NEW p \in Posts, PostMoves(p)
  PROVE  post' \in [Posts -> PostType]
<1>0. post \in [Posts -> PostType] /\ post[p] \in PostType
  BY Types
<1>1. ASSUME NEW place \in PostPlaces, post' = [post EXCEPT ![p].at = place]
      PROVE  post' \in [Posts -> PostType]
  <2> DEFINE new == [post[p] EXCEPT !.at = place]
  <2>1. new \in PostType
    BY <1>0 DEF PostType
  <2>2. post' = [post EXCEPT ![p] = new]
    BY <1>1
  <2> HIDE DEF new
  <2> QED
    BY <1>0, <2>1, <2>2
<1>2. ASSUME NEW new \in PostType, post' = [post EXCEPT ![p] = new]
      PROVE  post' \in [Posts -> PostType]
  BY <1>0, <1>2
<1>3. NoForm \in PostType
  BY <1>0 DEF NoForm, PostType, PostPlaces
<1>4. \A form \in Limits, place \in PostPlaces : [at |-> place, form |-> form] \in PostType
  BY DEF PostType
<1> QED
  BY <1>1, <1>2, <1>3, <1>4 DEF PostMoves

LEMMA Onward ==
  /\ From(1) \subseteq PostPlaces /\ From(2) \subseteq PostPlaces /\ From(3) \subseteq PostPlaces
<1>1. \A j \in 1 .. 4 : Stages[j] \in PostPlaces
  BY DEF Stages, PostPlaces
<1> QED
  BY <1>1 DEF From

LEMMA FormsMove ==
  ASSUME NEW p \in Posts, handleConfig(p)
  PROVE  PostMoves(p)
<1>1. CASE Submit(p)
  BY <1>1, Onward DEF Submit, PostMoves
<1>2. CASE RateEnable(p) \/ RateLimits(p)
  BY <1>2, Onward DEF RateEnable, RateLimits, PostMoves
<1>3. CASE RequestSettings(p)
  BY <1>3 DEF RequestSettings, SetEnabled, SetFirst, SetSecond, LeaveLimits, PostMoves, PostPlaces
<1> QED
  BY <1>1, <1>2, <1>3 DEF handleConfig

LEMMA TypeStep ==
  ASSUME IInv, Step
  PROVE  LimiterTypeOK' /\ rate' \in [enabled : BOOLEAN, max : RateMaxes]
<1>0. /\ LimiterTypeOK /\ rate \in [enabled : BOOLEAN, max : RateMaxes]
      /\ post \in [Posts -> PostType] /\ req \in [Requests -> RequestType]
      /\ limits \in LimitType
  BY Types DEF IInv, TypeOK
<1>1. ASSUME NEW p \in Posts, handleConfig(p)
      PROVE  LimiterTypeOK'
  <2>1. post' \in [Posts -> PostType]
    BY <1>0, <1>1, FormsMove, PostTypeStep
  <2>2. CASE SetFirst(p) \/ SetSecond(p)
    <3>1. StoreBody(p) \/ StoreHeader(p)
      BY <2>2 DEF SetFirst, SetSecond
    <3>2. limits' \in LimitType /\ Store(limits')
      BY <1>0, <3>1, StoresNew
    <3> QED
      BY <1>0, <2>1, <3>2, StoreFacts DEF LimiterTypeOK, PostType, PostPlaces, LimitType
  <2>3. CASE SetEnabled(p) \/ LeaveLimits(p) \/ RateEnable(p) \/ RateLimits(p)
    <3>1. enabled' \in BOOLEAN /\ UNCHANGED <<limits, req, widest, lowered>>
      BY <1>0, <2>3 DEF SetEnabled, LeaveLimits, RateEnable, RateLimits, LimiterTypeOK
    <3> QED
      BY <1>0, <2>1, <3>1 DEF LimiterTypeOK, PostType, PostPlaces
  <2>4. CASE Submit(p)
    <3>1. req' \in [Requests -> RequestType]
      BY <1>0, <2>4 DEF Submit, NoRequest, RequestType, RequestPlaces
    <3> QED
      BY <1>0, <2>1, <2>4, <3>1 DEF Submit, LimiterTypeOK, PostType, PostPlaces, RequestType,
                                        RequestPlaces
  <2> QED
    BY <1>1, <2>2, <2>3, <2>4 DEF handleConfig, RequestSettings
<1>2. ASSUME NEW r \in Requests, Come(r) \/ Middleware(r)
      PROVE  LimiterTypeOK'
  <2>0. limits.body \in Int /\ limits.header \in Int /\ req[r] \in RequestType
    BY <1>0, LimitNumbers
  <2>1. enabled' = enabled /\ limits' = limits /\ post' = post
    BY <1>2 DEF Come, Arrive, Middleware, TooLarge, CheckHeader, CheckLength, Cap, Leave
  <2>2. req' \in [Requests -> RequestType]
    <3>1. ASSUME NEW new \in RequestType, req' = [req EXCEPT ![r] = new]
          PROVE  req' \in [Requests -> RequestType]
      BY <1>0, <3>1
    <3>2. CASE Come(r)
      BY <3>1, <3>2 DEF Come, Arrive, RequestType, RequestPlaces
    <3>3. CASE TooLarge(r) \/ CheckHeader(r) \/ CheckLength(r)
      <4>1. PICK place \in RequestPlaces : req' = [req EXCEPT ![r].at = place]
        BY <3>3 DEF TooLarge, CheckHeader, CheckLength, Move, RequestPlaces
      <4> DEFINE new == [req[r] EXCEPT !.at = place]
      <4>2. new \in RequestType /\ req' = [req EXCEPT ![r] = new]
        BY <2>0, <4>1 DEF RequestType
      <4> HIDE DEF new
      <4> QED
        BY <3>1, <4>2
    <3>4. CASE Cap(r)
      <4> DEFINE new == [req[r] EXCEPT !.at = "passed", !.cap = GreaterOf(0, limits.body)]
      <4>1. GreaterOf(0, limits.body) \in Nat
        BY <2>0 DEF GreaterOf
      <4>2. new \in RequestType
        BY <2>0, <4>1 DEF RequestType, RequestPlaces
      <4>3. req' = [req EXCEPT ![r] = new]
        BY <3>4 DEF Cap
      <4> HIDE DEF new
      <4> QED
        BY <3>1, <4>2, <4>3
    <3>5. CASE Leave(r)
      <4>1. NoRequest \in RequestType
        BY DEF NoRequest, RequestType, RequestPlaces
      <4> QED
        BY <3>1, <3>5, <4>1 DEF Leave
    <3> QED
      BY <1>2, <3>2, <3>3, <3>4, <3>5 DEF Middleware
  <2>3. widest' \in [Requests -> [body : Int, header : Int]] /\ lowered' \in [Requests -> BOOLEAN]
    <3>1. limits \in [body : Int, header : Int]
      BY <1>0, LimitsAssumption DEF LimitType
    <3>2. \/ widest' = [widest EXCEPT ![r] = limits] /\ lowered' = [lowered EXCEPT ![r] = FALSE]
          \/ UNCHANGED <<widest, lowered>>
      BY <1>2 DEF Come, Arrive, Middleware, TooLarge, CheckHeader, CheckLength, Cap, Leave
    <3>3. widest \in [Requests -> [body : Int, header : Int]] /\ lowered \in [Requests -> BOOLEAN]
      BY <1>0 DEF LimiterTypeOK
    <3>4. CASE widest' = [widest EXCEPT ![r] = limits] /\ lowered' = [lowered EXCEPT ![r] = FALSE]
      BY <3>1, <3>3, <3>4
    <3> QED
      BY <3>2, <3>3, <3>4
  <2> QED
    BY <1>0, <2>1, <2>2, <2>3 DEF LimiterTypeOK, RequestType, RequestPlaces
<1>3. rate' \in [enabled : BOOLEAN, max : RateMaxes]
  BY <1>0 DEF Step, handleConfig, Come, Submit, RateEnable, RateLimits
<1> QED
  BY <1>1, <1>2, <1>3 DEF Step

----------------------------------------------------------------------------
(* The lock keeps the two stores of a form together.                       *)
LEMMA LockStep ==
  ASSUME IInv, Step
  PROVE  LockOK' /\ LimitsWhole'
<1>0. /\ LimiterTypeOK /\ LockOK /\ LimitsWhole
      /\ post \in [Posts -> PostType] /\ limits \in LimitType
  BY Types DEF IInv, TypeOK
<1>1. ASSUME NEW p \in Posts, SetFirst(p)
      PROVE  LockOK' /\ LimitsWhole'
  <2>1. /\ \A q \in Posts : ~Holding(q)
        /\ post[p].form \in Limits
    BY <1>0, <1>1 DEF SetFirst, Free, Holding, PostType
  <2>2. /\ \A q \in Posts \ {p} : post'[q] = post[q]
        /\ post'[p].form = post[p].form
        /\ \/ post'[p].at = "header" /\ limits'.body = post[p].form.body
           \/ post'[p].at = "body" /\ limits'.header = post[p].form.header
    <3>1. CASE StoreBody(p) /\ post' = [post EXCEPT ![p].at = "header"]
      BY <1>0, <3>1 DEF StoreBody, Store, PostType, LimitType
    <3>2. CASE StoreHeader(p) /\ post' = [post EXCEPT ![p].at = "body"]
      BY <1>0, <3>2 DEF StoreHeader, Store, PostType, LimitType
    <3> QED
      BY <1>1, <3>1, <3>2 DEF SetFirst
  <2> QED
    BY <2>1, <2>2 DEF LockOK, LimitsWhole, Free, Holding
<1>2. ASSUME NEW p \in Posts, SetSecond(p)
      PROVE  LockOK' /\ LimitsWhole'
  <2>1. /\ Holding(p) /\ \A q \in Posts \ {p} : ~Holding(q)
        /\ post[p].form \in Limits
    BY <1>0, <1>2 DEF SetSecond, LockOK, Holding, PostType
  <2>2. limits' = post[p].form
    BY <1>0, <1>2, <2>1, WholeForm DEF SetSecond, StoreBody, StoreHeader, Store, LockOK
  <2>3. \A q \in Posts : post'[q].at \notin {"body", "header"}
    BY <1>0, <1>2, <2>1 DEF SetSecond, NoForm, Holding
  <2> QED
    BY <2>1, <2>2, <2>3 DEF LockOK, LimitsWhole, Holding
<1>3. ASSUME NEW p \in Posts,
             Submit(p) \/ RateEnable(p) \/ RateLimits(p) \/ SetEnabled(p) \/ LeaveLimits(p)
      PROVE  LockOK' /\ LimitsWhole'
  <2>1. /\ limits' = limits /\ ~Holding(p)
        /\ \A q \in Posts \ {p} : post'[q] = post[q]
    BY <1>0, <1>3 DEF Submit, RateEnable, RateLimits, SetEnabled, LeaveLimits, Holding
  <2>2. post'[p].at \notin {"body", "header"}
    <3>1. \A i \in 1 .. 3 : From(i) \subseteq {"rateEnable", "rateLimits", "enable", "limits"}
      <4>1. \A j \in 1 .. 4 : Stages[j] \in {"rateEnable", "rateLimits", "enable", "limits"}
        BY DEF Stages
      <4> QED
        BY <4>1 DEF From
    <3>2. CASE Submit(p)
      BY <1>0, <3>1, <3>2 DEF Submit
    <3>3. CASE RateEnable(p) \/ RateLimits(p)
      <4>1. PICK at \in From(2) \cup From(3) : post' = [post EXCEPT ![p].at = at]
        BY <3>3 DEF RateEnable, RateLimits
      <4> QED
        BY <1>0, <3>1, <4>1 DEF PostType
    <3>4. CASE SetEnabled(p) \/ LeaveLimits(p)
      BY <1>0, <3>4 DEF SetEnabled, LeaveLimits, NoForm, PostType
    <3> QED
      BY <1>3, <3>2, <3>3, <3>4
  <2>3. Free' => Free
    BY <2>1 DEF Free, Holding
  <2> QED
    BY <1>0, <2>1, <2>2, <2>3 DEF LockOK, LimitsWhole, Holding
<1>4. ASSUME NEW r \in Requests, Come(r) \/ Middleware(r)
      PROVE  LockOK' /\ LimitsWhole'
  <2>1. limits' = limits /\ post' = post
    BY <1>4 DEF Come, Arrive, Middleware, TooLarge, CheckHeader, CheckLength, Cap, Leave
  <2> QED
    BY <1>0, <2>1 DEF LockOK, LimitsWhole, Free, Holding
<1> QED
  BY <1>1, <1>2, <1>3, <1>4 DEF Step, handleConfig, RequestSettings

----------------------------------------------------------------------------
(* What the checks have told stays true while the limits move.             *)
LEMMA ChecksStep ==
  ASSUME IInv, Step
  PROVE  ChecksOK'
<1>0. /\ LimiterTypeOK /\ ChecksOK /\ req \in [Requests -> RequestType]
      /\ limits \in LimitType /\ limits.body \in Int /\ limits.header \in Int
      /\ widest \in [Requests -> [body : Int, header : Int]]
      /\ lowered \in [Requests -> BOOLEAN]
  BY Types, LimitNumbers DEF IInv, TypeOK, LimiterTypeOK
<1>a. ASSUME NEW r \in Requests
      PROVE  /\ CheckedOK(req[r], widest[r], limits, lowered[r])
             /\ req[r] \in RequestType /\ req[r].header \in Int /\ req[r].length \in Int
             /\ req[r].cap \in Int
             /\ widest[r].body \in Int /\ widest[r].header \in Int
  <2>1. req[r] \in RequestType /\ widest[r] \in [body : Int, header : Int]
    BY <1>0
  <2>2. /\ req[r].header \in Sizes \cup {0} /\ req[r].length \in Sizes \cup {Unknown}
        /\ req[r].cap \in Nat \cup {NoCap}
    BY <2>1 DEF RequestType
  <2>3. req[r].header \in Int /\ req[r].length \in Int /\ req[r].cap \in Int
    BY <2>2, SizeNumbers
  <2> QED
    BY <1>0, <2>1, <2>3 DEF ChecksOK
<1>1. ASSUME NEW p \in Posts, SetFirst(p) \/ SetSecond(p)
      PROVE  ChecksOK'
  <2>1. StoreBody(p) \/ StoreHeader(p)
    BY <1>1 DEF SetFirst, SetSecond
  <2>2. limits' \in LimitType /\ Store(limits')
    BY <1>0, <2>1, StoresNew
  <2>3. limits'.body \in Int /\ limits'.header \in Int
    BY <2>2, LimitNumbers
  <2>4. ASSUME NEW r \in Requests
        PROVE  CheckedOK(req[r], widest'[r], limits', lowered'[r])
    <3>1. /\ widest[r].body <= widest'[r].body /\ limits'.body <= widest'[r].body
          /\ widest[r].header <= widest'[r].header /\ limits'.header <= widest'[r].header
          /\ lowered[r] \/ limits'.body < limits.body => lowered'[r]
          /\ widest'[r].body \in Int /\ widest'[r].header \in Int
      BY <1>0, <2>2, StoreFacts
    <3> QED
      BY <1>0, <1>a, <2>3, <3>1 DEF CheckedOK, GreaterOf
  <2> QED
    BY <1>0, <2>2, <2>4, StoreFacts DEF ChecksOK
<1>2. ASSUME NEW p \in Posts,
             Submit(p) \/ RateEnable(p) \/ RateLimits(p) \/ SetEnabled(p) \/ LeaveLimits(p)
      PROVE  ChecksOK'
  <2>1. /\ limits' = limits /\ widest' = widest /\ lowered' = lowered
        /\ req' = req \/ req' = [req EXCEPT ![p] = NoRequest]
    BY <1>2 DEF Submit, RateEnable, RateLimits, SetEnabled, LeaveLimits
  <2>2. ASSUME NEW r \in Requests
        PROVE  CheckedOK(req'[r], widest[r], limits, lowered[r])
    <3>1. CASE req'[r] = req[r]
      BY <1>a, <3>1
    <3>2. CASE req'[r] = NoRequest
      BY <1>a, <3>2 DEF CheckedOK, NoRequest
    <3> QED
      BY <1>0, <2>1, <3>1, <3>2
  <2> QED
    BY <2>1, <2>2 DEF ChecksOK
<1>3. ASSUME NEW r \in Requests, Come(r) \/ Middleware(r)
      PROVE  ChecksOK'
  <2>1. /\ limits' = limits
        /\ \A q \in Requests \ {r} :
             req'[q] = req[q] /\ widest'[q] = widest[q] /\ lowered'[q] = lowered[q]
    BY <1>0, <1>3 DEF Come, Arrive, Middleware, TooLarge, CheckHeader, CheckLength, Cap, Leave,
                      Move
  <2>2. CheckedOK(req'[r], widest'[r], limits, lowered'[r])
    <3>1. CASE Come(r)
      <4>1. /\ req'[r].at \in {"header", "passed"} /\ req'[r].cap = NoCap
            /\ widest'[r] = limits
        BY <1>0, <3>1 DEF Come, Arrive
      <4> QED
        BY <1>0, <4>1 DEF CheckedOK
    <3>2. CASE Middleware(r)
      <4>0. widest'[r] = widest[r] /\ lowered'[r] = lowered[r]
        BY <3>2 DEF Middleware, TooLarge, CheckHeader, CheckLength, Cap, Leave
      <4>1. CASE TooLarge(r) \/ Leave(r)
        <5>1. req'[r].at \in {"refused", "idle"}
          BY <1>0, <1>a, <4>1 DEF TooLarge, Leave, Move, NoRequest, RequestType
        <5> QED
          BY <1>a, <4>0, <5>1 DEF CheckedOK
      <4>2. CASE CheckHeader(r) \/ CheckLength(r)
        <5>1. \/ /\ req'[r].at = "length" /\ req[r].header <= limits.header
              \/ /\ req'[r].at = "cap" /\ req[r].at = "length" /\ req[r].length <= limits.body
          BY <1>0, <1>a, <4>2 DEF CheckHeader, CheckLength, Move, RequestType
        <5>2. req'[r].header = req[r].header /\ req'[r].length = req[r].length
          BY <1>0, <1>a, <4>2 DEF CheckHeader, CheckLength, Move, RequestType
        <5> QED
          BY <1>0, <1>a, <4>0, <5>1, <5>2 DEF CheckedOK
      <4>3. CASE Cap(r)
        <5>1. /\ req[r].at = "cap" /\ req'[r].at = "passed"
              /\ req'[r].cap = GreaterOf(0, limits.body)
              /\ req'[r].header = req[r].header /\ req'[r].length = req[r].length
          BY <1>0, <1>a, <4>3 DEF Cap, RequestType
        <5> QED
          BY <1>0, <1>a, <4>0, <5>1 DEF CheckedOK, GreaterOf
      <4> QED
        BY <3>2, <4>1, <4>2, <4>3 DEF Middleware
    <3> QED
      BY <1>3, <3>1, <3>2
  <2>3. ASSUME NEW q \in Requests
        PROVE  CheckedOK(req'[q], widest'[q], limits', lowered'[q])
    BY <1>a, <2>1, <2>2
  <2> QED
    BY <2>3 DEF ChecksOK
<1> QED
  BY <1>1, <1>2, <1>3 DEF Step, handleConfig, RequestSettings

----------------------------------------------------------------------------
(* Settings that shut everybody out stay.                                  *)
LEMMA ShutStep ==
  ASSUME IInv, Next
  PROVE  ShutOK'
<1>0. /\ LimiterTypeOK /\ ShutOK /\ req \in [Requests -> RequestType]
      /\ limits.body \in Int /\ limits.header \in Int
  BY Types, LimitNumbers DEF IInv, TypeOK
<1>1. CASE ~locked /\ locked'
  <2>1. Shut' /\ Quiet'
    BY <1>1 DEF Next
  <2> QED
    BY <2>1 DEF ShutOK, Quiet
<1>2. CASE locked
  <2>1. /\ Shut /\ \A p \in Posts : post[p].at = "idle"
        /\ \A r \in Requests :
             /\ req[r].at \in {"idle", "header", "length", "refused"}
             /\ rate.enabled /\ rate.max <= 0 => req[r].at = "idle"
             /\ req[r].at \in {"header", "length"} => req[r].header >= 0
             /\ req[r].at = "length" => req[r].header <= limits.header
    BY <1>0, <1>2 DEF ShutOK
  <2>2. ASSUME NEW p \in Posts PROVE ~handleConfig(p)
    <3>1. req[p].at # "passed"
      BY <2>1, PostsAssumption
    <3> QED
      BY <2>1, <3>1 DEF handleConfig, Submit, RateEnable, RateLimits, RequestSettings, SetEnabled,
                        SetFirst, SetSecond, LeaveLimits
  <2>3. PICK r \in Requests : Come(r) \/ (Middleware(r) /\ UNCHANGED rate)
    BY <2>2 DEF Next, Step
  <2>4. /\ UNCHANGED <<rate, enabled, limits, post>>
        /\ \A q \in Requests \ {r} : req'[q] = req[q]
    BY <1>0, <2>3 DEF Come, Arrive, Middleware, TooLarge, CheckHeader, CheckLength, Cap, Leave,
                      Move
  <2>5. req[r] \in RequestType /\ req[r].header \in Int /\ req[r].length \in Int
    <3>1. /\ req[r] \in RequestType
          /\ req[r].header \in Sizes \cup {0} /\ req[r].length \in Sizes \cup {Unknown}
      BY <1>0 DEF RequestType
    <3> QED
      BY <3>1, SizeNumbers
  <2>6. /\ req'[r].at \in {"idle", "header", "length", "refused"}
        /\ rate.enabled /\ rate.max <= 0 => req'[r].at = "idle"
        /\ req'[r].at \in {"header", "length"} => req'[r].header >= 0
        /\ req'[r].at = "length" => req'[r].header <= limits.header
    <3>1. CASE Come(r)
      <4>1. ~(rate.enabled /\ rate.max <= 0)
        <5>1. rate.max \in Int
          BY RateMaxesAssumption DEF IInv, TypeOK
        <5> QED
          BY <3>1, <5>1 DEF Come
      <4>2. enabled
        BY <2>1, <4>1 DEF Shut
      <4>3. req'[r].at = "header" /\ req'[r].header \in Sizes \cup {0}
        BY <1>0, <3>1, <4>2 DEF Come, Arrive
      <4>4. req'[r].header >= 0
        BY <4>3, SizeNumbers
      <4> QED
        BY <4>1, <4>3, <4>4
    <3>2. CASE TooLarge(r) \/ Leave(r)
      <4>1. /\ req'[r].at \in {"refused", "idle"} /\ req[r].at # "idle"
        BY <1>0, <2>5, <3>2 DEF TooLarge, Leave, Move, NoRequest, RequestType
      <4> QED
        BY <2>1, <4>1
    <3>3. CASE CheckHeader(r)
      <4>1. /\ req[r].at = "header" /\ req'[r].at = "length" /\ req'[r].header = req[r].header
            /\ req[r].header <= limits.header
        BY <1>0, <2>5, <3>3 DEF CheckHeader, Move, RequestType
      <4> QED
        BY <2>1, <4>1
    <3>4. ~CheckLength(r)
      <4> SUFFICES ASSUME CheckLength(r) PROVE FALSE
        OBVIOUS
      <4>1. req[r].at = "length" /\ req[r].length <= limits.body /\ req[r].length >= Unknown
        <5>1. req[r].length \in Sizes \cup {Unknown}
          BY <2>5 DEF RequestType
        <5> QED
          BY <5>1, SizeNumbers DEF CheckLength
      <4>2. req[r].header >= 0 /\ req[r].header <= limits.header
        BY <2>1, <4>1
      <4>3. ~(rate.enabled /\ rate.max <= 0)
        BY <2>1, <4>1
      <4> QED
        BY <1>0, <2>1, <2>5, <4>1, <4>2, <4>3 DEF Shut, Unknown
    <3>5. ~Cap(r)
      BY <2>1 DEF Cap
    <3> QED
      BY <2>3, <3>1, <3>2, <3>3, <3>4, <3>5 DEF Middleware
  <2>7. Shut'
    BY <2>1, <2>4 DEF Shut
  <2> QED
    BY <2>1, <2>4, <2>6, <2>7 DEF ShutOK
<1>3. CASE ~locked'
  BY <1>3 DEF ShutOK
<1> QED
  BY <1>1, <1>2, <1>3

----------------------------------------------------------------------------
LEMMA Inductive == Spec => []IInv
<1>1. IInv /\ [Next]_vars => IInv'
  <2>1. ASSUME IInv, Next PROVE IInv'
    <3>1. Step /\ locked' = (locked \/ (Shut /\ Quiet)')
      BY <2>1 DEF Next
    <3>2. TypeOK'
      BY <2>1, <3>1, TypeStep DEF IInv, TypeOK, Shut
    <3> QED
      BY <2>1, <3>1, <3>2, LockStep, ChecksStep, ShutStep DEF IInv
  <2>2. ASSUME IInv, UNCHANGED vars PROVE IInv'
    BY <2>2 DEF vars, limiterVars, IInv, TypeOK, LimiterTypeOK, LimitsWhole, Free, LockOK,
                Holding, ChecksOK, ShutOK, Shut
  <2> QED
    BY <2>1, <2>2
<1> QED
  BY <1>1, InitIInv, PTL DEF Spec

(* The types of both limiters' settings and of what is under way (TypeOK). *)
THEOREM TypeCorrect == Spec => []TypeOK
BY Inductive, PTL DEF IInv

(* The two stores of SetLimits are seen together by all who take the lock. *)
THEOREM WholeTheorem == Spec => []LimitsWhole
BY Inductive, PTL DEF IInv

(* No request gets through with more than the limits that were in force    *)
(* allow, though they are read without the lock (Middleware).              *)
THEOREM ScreenedTheorem == Spec => []Screened
<1>1. IInv => Screened
  BY DEF IInv, ChecksOK, CheckedOK, Screened
<1> QED
  BY <1>1, Inductive, PTL

(* A body is cut only where the limit went down meanwhile (Middleware).    *)
THEOREM CutTheorem == Spec => []CutOnlyIfLowered
<1>1. IInv => CutOnlyIfLowered
  BY DEF IInv, ChecksOK, CheckedOK, CutOnlyIfLowered
<1> QED
  BY <1>1, Inductive, PTL

(* Nobody gets in to take back settings that shut everybody out            *)
(* (handleConfig behind both limiters, main).                              *)
THEOREM ShutTheorem == Spec => []ShutForGood
<1>1. IInv => ShutForGood
  BY DEF IInv, ShutOK, ShutForGood
<1> QED
  BY <1>1, Inductive, PTL
=============================================================================
