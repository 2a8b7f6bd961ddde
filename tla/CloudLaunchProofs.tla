-------------------------- MODULE CloudLaunchProofs --------------------------
(***************************************************************************)
(* Proofs about the two ends of a launch, as MCCloudLaunch composes them:  *)
(* CloudLaunch, for any launches, provider kinds, attempts and faults, and *)
(* Tasks, for any tasks, entries, titles and requests.                     *)
(***************************************************************************)
EXTENDS CloudLaunch, Tasks, TLAPS

\* Before the machine is asked for.
Early == {"new", "prepare", "ip"}

\* A launch that has not asked for its machine has none, and no interface is left
\* of one that is gone.
Placed(l) ==
    /\ at[l] \in Early => inst[l] = "none"
    /\ at[l] \in {"ip", "nic", "undoNic", "undoIp"} => kind = "AZURE"
    /\ inst[l] = "none" <=> made[l] = 0
    /\ kind = "AZURE" => inst[l] # "asked" /\ (inst[l] = "gone" => "nic" \notin own[l])

\* A machine was asked for once, or by a request that was sent twice.
Counted(l) ==
    /\ at[l] = "resend" => kind = "SKYPILOT" /\ made[l] <= 1
    /\ at[l] = "resend" /\ made[l] = 1 => l \in hurt
    /\ made[l] \in {0, 1} \/ (made[l] = 2 /\ kind = "SKYPILOT" /\ l \in hurt)

\* What a launch made for itself and is not rid of.
Cleared(l) ==
    /\ at[l] \in {"new", "prepare", "resend"} => own[l] = {}
    /\ inst[l] = "none" /\ l \notin undeleted =>
          /\ at[l] = "undoIp" => "nic" \notin own[l]
          /\ at[l] = "failed" => own[l] = {}

\* Who fails, or finds its interface gone, was disturbed.
Blamed(l) ==
    /\ at[l] \in {"failed", "undoNic", "undoIp"} => l \in hurt
    /\ stop[l] \in {"nic", "ip"} => kind = "AZURE" /\ l \in hurt
    /\ at[l] = "ip" /\ "ip" \notin own[l] => l \in hurt
    /\ at[l] = "nic" /\ ("nic" \notin own[l] \/ inst[l] # "none") => l \in hurt

\* A machine whose stop succeeded, and looked, is gone.
Over(l) == stop[l] \in {"nic", "ip", "success"} =>
               l \in blind \/ made[l] > 1 \/ inst[l] = "gone"

\* Two launches under way know of each other.
Alone == \A l, m \in Launches : l # m /\ Running(l) /\ Running(m) => l \in hurt

\* What is there when step s, and the steps it plans, have been made; what they
\* may create; and what has to be there before.
Promise(s) == CASE s.op = "read" -> {}
                [] s = Look("profile") -> {"profile", "attached"}
                [] OTHER -> {s.on}
Duty(s) == IF s = Look("group") THEN {"group", "rule"} ELSE Promise(s)
Needs(s) == CASE s.on = "attached" -> {"role", "policy", "profile"}
              [] s = Look("profile") -> {"role", "policy"}
              [] s.on = "rule" -> {"group"}
              [] OTHER -> {}

\* Resource r is among h, or there after the first n of the steps s.
Met(h, r, s, n) == r \in h \/ \E j \in 1..n : r \in Promise(s[j])

\* No two steps create the same; what a step needs comes before it; nothing that is
\* still to be created is there; the steps supply R.
Apart(s)      == \A i, j \in 1..Len(s) : i # j => Duty(s[i]) \cap Duty(s[j]) = {}
Ordered(h, s) == \A i \in 1..Len(s) : \A r \in Needs(s[i]) : Met(h, r, s, i - 1)
Missed(h, s)  == \A i \in 1..Len(s) : s[i].op = "make" => s[i].on \notin h
Leads(h, s, R) == \A r \in R : Met(h, r, s, Len(s))

\* What an AWS machine needs to end itself.
Rights == {"policy", "attached"}

\* The plan of l holds together.
Planned(l) ==
    /\ Apart(todo[l]) /\ Ordered(have, todo[l])
    /\ kind = "AWS" /\ at[l] = "prepare" => Leads(have, todo[l], Rights)
    /\ l \notin hurt => Missed(have, todo[l])

\* A machine has the right to end itself, or has lost it.
Granted(l) ==
    /\ kind = "AWS" /\ inst[l] # "none" => Rights \subseteq have
    /\ inst[l] = "idle" => l \in mute

\* What all steps of all launches keep.
CloudInv == /\ TypeOK /\ Alone
            /\ \A l \in Launches : /\ Placed(l) /\ Counted(l) /\ Cleared(l)
                                   /\ Blamed(l) /\ Over(l) /\ Planned(l) /\ Granted(l)

-----------------------------------------------------------------------------
(* Steps. *)

\* The steps p take the place of the step s when h exists.
Replaces(p, s, h) ==
    /\ Apart(p) /\ \A i \in 1..Len(p) : Duty(p[i]) \subseteq Duty(s)
    /\ \A r \in Promise(s) : Met(h, r, p, Len(p))
    /\ \A i \in 1..Len(p) : \A r \in Needs(p[i]) : Met(h, r, p, i - 1)

LEMMA Spliced ==
    ASSUME NEW S, NEW s \in Seq(S), s # <<>>, NEW p \in Seq(S)
    PROVE  /\ p \o Tail(s) \in Seq(S) /\ Tail(s) \in Seq(S) /\ Head(s) \in S
           /\ Len(p \o Tail(s)) = Len(p) + Len(s) - 1
           /\ Len(s) \in Nat \ {0} /\ Len(p) \in Nat
           /\ \A i \in 1..Len(p) : (p \o Tail(s))[i] = p[i]
           /\ \A i \in 1..Len(s) : i > 1 => (p \o Tail(s))[Len(p) + i - 1] = s[i]
           /\ \A k \in 1..Len(p \o Tail(s)) :
                 k > Len(p) => k - Len(p) + 1 \in 2..Len(s)
                               /\ (p \o Tail(s))[k] = s[k - Len(p) + 1]
  OBVIOUS

LEMMA EmptyPlan ==
    ASSUME NEW S, NEW s \in Seq(S), s # <<>>
    PROVE  <<>> \o Tail(s) = Tail(s) /\ <<>> \in Seq(S)
  OBVIOUS

\* Who promised r before step i of s still does when p has taken the place of the
\* first one.
LEMMA StillMet ==
    ASSUME NEW h, NEW g, g \subseteq h,
           NEW s \in Seq(Steps), s # <<>>, NEW p \in Seq(Steps), Replaces(p, s[1], h),
           NEW n \in 1..Len(s), NEW r, Met(g, r, s, n)
    PROVE  Met(h, r, p \o Tail(s), Len(p) + n - 1)
  <1> DEFINE q == p \o Tail(s)
  <1>1. /\ Len(p) \in Nat /\ Len(s) \in Nat
        /\ \A i \in 1..Len(p) : q[i] = p[i]
        /\ \A i \in 1..Len(s) : i > 1 => q[Len(p) + i - 1] = s[i]
    BY Spliced
  <1> HIDE DEF q
  <1>2. CASE r \in g
    BY <1>2 DEF Met
  <1>3. ASSUME NEW j \in 1..n, r \in Promise(s[j]), j > 1
        PROVE  Met(h, r, q, Len(p) + n - 1)
    <2>1. Len(p) + j - 1 \in 1..(Len(p) + n - 1) /\ q[Len(p) + j - 1] = s[j]
      BY <1>1, <1>3
    <2> QED  BY <2>1, <1>3 DEF Met
  <1>4. CASE r \in Promise(s[1])
    <2>1. Met(h, r, p, Len(p))
      BY <1>4 DEF Replaces
    <2>2. ASSUME NEW j \in 1..Len(p), r \in Promise(p[j])
          PROVE  Met(h, r, q, Len(p) + n - 1)
      <3>1. j \in 1..(Len(p) + n - 1) /\ q[j] = p[j]
        BY <1>1
      <3> QED  BY <3>1, <2>2 DEF Met
    <2>3. r \in h => Met(h, r, q, Len(p) + n - 1)
      BY DEF Met
    <2>4. r \in h \/ \E j \in 1..Len(p) : r \in Promise(p[j])
      BY <2>1 DEF Met
    <2> QED  BY <2>2, <2>3, <2>4 DEF q
  <1>5. r \in g \/ \E j \in 1..n : r \in Promise(s[j])
    BY DEF Met
  <1>6. \A j \in 1..n : j = 1 \/ j > 1
    BY <1>1
  <1> QED  BY <1>2, <1>3, <1>4, <1>5, <1>6 DEF q

LEMMA GoesOn ==
    ASSUME NEW h, NEW g, g \subseteq h,
           NEW s \in Seq(Steps), s # <<>>, NEW p \in Seq(Steps), Replaces(p, s[1], h),
           Apart(s), Ordered(g, s)
    PROVE  /\ p \o Tail(s) \in Seq(Steps)
           /\ Apart(p \o Tail(s)) /\ Ordered(h, p \o Tail(s))
           /\ \A R : Leads(g, s, R) => Leads(h, p \o Tail(s), R)
           /\ Missed(h, p) /\ (\A i \in 2..Len(s) : s[i].op = "make" => s[i].on \notin h)
                 => Missed(h, p \o Tail(s))
  <1> DEFINE q == p \o Tail(s)
  <1>1. /\ Len(p) \in Nat /\ Len(s) \in Nat \ {0} /\ q \in Seq(Steps)
        /\ Len(q) = Len(p) + Len(s) - 1
        /\ \A i \in 1..Len(p) : q[i] = p[i]
        /\ \A k \in 1..Len(q) :
                 k > Len(p) => k - Len(p) + 1 \in 2..Len(s) /\ q[k] = s[k - Len(p) + 1]
    BY Spliced
  <1>0. \A n \in 1..Len(s) : \A r : Met(g, r, s, n) => Met(h, r, q, Len(p) + n - 1)
    BY StillMet
  <1> HIDE DEF q
  <1>2. ASSUME NEW i \in 1..Len(q), NEW j \in 1..Len(q), i < j
        PROVE  Duty(q[i]) \cap Duty(q[j]) = {}
    <2>1. CASE j <= Len(p)
      <3>1. i \in 1..Len(p) /\ j \in 1..Len(p) /\ i # j /\ q[i] = p[i] /\ q[j] = p[j]
        BY <1>1, <1>2, <2>1
      <3> QED  BY <3>1 DEF Replaces, Apart
    <2>2. CASE i <= Len(p) /\ j > Len(p)
      <3> DEFINE k == j - Len(p) + 1
      <3>1. i \in 1..Len(p) /\ k \in 2..Len(s) /\ q[i] = p[i] /\ q[j] = s[k]
        BY <1>1, <1>2, <2>2
      <3> HIDE DEF k
      <3>2. k \in 1..Len(s) /\ 1 \in 1..Len(s) /\ k # 1
        BY <1>1, <3>1
      <3>3. Duty(p[i]) \subseteq Duty(s[1]) /\ Duty(s[1]) \cap Duty(s[k]) = {}
        BY <3>1, <3>2 DEF Replaces, Apart
      <3> QED  BY <3>1, <3>3
    <2>3. CASE i > Len(p)
      <3> DEFINE k == j - Len(p) + 1
                 m == i - Len(p) + 1
      <3>1. m \in 1..Len(s) /\ k \in 1..Len(s) /\ k # m /\ q[i] = s[m] /\ q[j] = s[k]
        BY <1>1, <1>2, <2>3
      <3> HIDE DEF k, m
      <3> QED  BY <3>1 DEF Apart
    <2> QED  BY <1>1, <1>2, <2>1, <2>2, <2>3
  <1>3. Apart(q)
    <2>1. \A i, j \in 1..Len(q) : i # j => i < j \/ j < i
      BY <1>1
    <2> QED  BY <1>2, <2>1 DEF Apart
  <1>4. ASSUME NEW i \in 1..Len(q), NEW r \in Needs(q[i])
        PROVE  Met(h, r, q, i - 1)
    <2>1. CASE i <= Len(p)
      <3>1. i \in 1..Len(p) /\ q[i] = p[i]
        BY <1>1, <2>1
      <3>2. Met(h, r, p, i - 1)
        BY <1>4, <3>1 DEF Replaces
      <3>3. \A j \in 1..(i - 1) : q[j] = p[j]
        BY <1>1, <3>1
      <3> QED  BY <3>2, <3>3 DEF Met
    <2>2. CASE i > Len(p)
      <3> DEFINE k == i - Len(p) + 1
      <3>1. k \in 1..Len(s) /\ k - 1 \in 1..Len(s) /\ q[i] = s[k] /\ Len(p) + (k - 1) - 1 = i - 1
        BY <1>1, <2>2
      <3> HIDE DEF k
      <3>2. Met(g, r, s, k - 1)
        BY <1>4, <3>1 DEF Ordered
      <3>3. Met(h, r, q, Len(p) + (k - 1) - 1)
        BY <1>0, <3>1, <3>2
      <3> QED  BY <3>1, <3>3
    <2> QED  BY <1>1, <2>1, <2>2
  <1>5. \A R : Leads(g, s, R) => Leads(h, q, R)
    <2>1. Len(s) \in 1..Len(s)
      BY <1>1
    <2> QED  BY <1>0, <1>1, <2>1 DEF Leads
  <1>6. ASSUME Missed(h, p), \A i \in 2..Len(s) : s[i].op = "make" => s[i].on \notin h,
               NEW i \in 1..Len(q), q[i].op = "make"
        PROVE  q[i].on \notin h
    <2>1. CASE i <= Len(p)
      BY <1>1, <1>6, <2>1 DEF Missed
    <2>2. CASE i > Len(p)
      BY <1>1, <1>6, <2>2
    <2> QED  BY <1>1, <2>1, <2>2
  <1> QED  BY <1>1, <1>3, <1>4, <1>5, <1>6 DEF Ordered, Missed, q

HaveOK == /\ "rule" \in have => "group" \in have
          /\ "attached" \in have => {"role", "policy", "profile"} \subseteq have

LEMMA StepParts ==
    ASSUME NEW s \in Steps
    PROVE  /\ s.op # "read" => s.on \in Resources /\ s.op \in {"look", "make", "put"}
           /\ s.op = "look" => s = Look(s.on)
           /\ s.op = "make" => s = Make(s.on)
           /\ s.op = "put"  => s = Put(s.on)
  BY DEF Steps, Look, Make, Put

LEMMA StepIs ==
    ASSUME NEW r \in Resources
    PROVE  Look(r) \in Steps /\ Make(r) \in Steps /\ Put(r) \in Steps
  BY DEF Steps, Look, Make, Put

LEMMA Promises ==
    ASSUME NEW r \in Resources
    PROVE  /\ Promise(Make(r)) = {r} /\ Duty(Make(r)) = {r}
           /\ Promise(Put(r)) = {r} /\ Duty(Put(r)) = {r}
           /\ r # "profile" => Promise(Look(r)) = {r}
           /\ Promise(Look("profile")) = {"profile", "attached"}
           /\ Duty(Look("profile")) = {"profile", "attached"}
           /\ r \notin {"profile", "group"} => Duty(Look(r)) = {r}
           /\ Promise(Look("group")) = {"group"} /\ Duty(Look("group")) = {"group", "rule"}
           /\ Needs(Look("profile")) = {"role", "policy"}
           /\ Needs(Make("profile")) = {} /\ Needs(Make("group")) = {}
           /\ Needs(Make("attached")) = {"role", "policy", "profile"}
           /\ Needs(Make("rule")) = {"group"}
           /\ r # "profile" => Needs(Look(r)) = Needs(Make(r)) /\ Needs(Put(r)) = Needs(Make(r))
           /\ Make(r).op = "make" /\ Make(r).on = r /\ Put(r).op = "put"
  BY DEF Promise, Duty, Needs, Look, Make, Put

\* What a launch plans after looking for r does what looking for it promised.
LEMMA PlanReplaces ==
    ASSUME have \subseteq Resources, HaveOK, NEW r \in Resources,
           \A x \in Needs(Look(r)) : x \in have
    PROVE  /\ Plan(r) \in Seq(Steps)
           /\ Replaces(Plan(r), Look(r), have) /\ Missed(have, Plan(r))
  <1>1. ASSUME NEW x \in Resources, NEW t \in {Make(x), Put(x)}, x \notin have,
               Promise(Look(r)) = {x}, x \in Duty(Look(r)),
               Needs(t) \subseteq have
        PROVE  <<t>> \in Seq(Steps) /\ Replaces(<<t>>, Look(r), have) /\ Missed(have, <<t>>)
    <2>1. /\ Len(<<t>>) = 1 /\ <<t>>[1] = t /\ \A i \in 1..1 : i = 1
          /\ t \in Steps /\ <<t>> \in Seq(Steps)
          /\ Promise(t) = {x} /\ Duty(t) = {x} /\ t.op \in {"make", "put"}
          /\ t.op = "make" => t.on = x
      BY <1>1, StepIs, Promises
    <2>2. Apart(<<t>>) /\ Missed(have, <<t>>)
      BY <1>1, <2>1 DEF Apart, Missed
    <2>3. \A y \in Promise(Look(r)) : Met(have, y, <<t>>, Len(<<t>>))
      BY <1>1, <2>1 DEF Met
    <2> QED  BY <1>1, <2>1, <2>2, <2>3 DEF Replaces, Met
  <1>2. ASSUME \A x \in Promise(Look(r)) : x \in have
        PROVE  <<>> \in Seq(Steps) /\ Replaces(<<>>, Look(r), have) /\ Missed(have, <<>>)
    BY <1>2 DEF Replaces, Met, Apart, Missed
  <1>3. ASSUME NEW x \in Resources, NEW y \in Resources, x # y, x \notin have, y \notin have,
               Promise(Look(r)) \subseteq {x, y}, {x, y} \subseteq Duty(Look(r)),
               Needs(Make(x)) \subseteq have, Needs(Make(y)) \subseteq have \cup {x}
        PROVE  LET p == <<Make(x), Make(y)>>
               IN  p \in Seq(Steps) /\ Replaces(p, Look(r), have) /\ Missed(have, p)
    <2> DEFINE p == <<Make(x), Make(y)>>
    <2>1. /\ Len(p) = 2 /\ p[1] = Make(x) /\ p[2] = Make(y) /\ \A i \in 1..2 : i = 1 \/ i = 2
          /\ 1 \in 1..2 /\ 2 \in 1..2 /\ 1 \in 1..(2-1) /\ p \in Seq(Steps)
      BY StepIs
    <2>2. /\ Promise(p[1]) = {x} /\ Duty(p[1]) = {x} /\ Promise(p[2]) = {y} /\ Duty(p[2]) = {y}
          /\ p[1].on = x /\ p[2].on = y
      BY <2>1, Promises
    <2>3. Needs(p[1]) \subseteq have /\ Needs(p[2]) \subseteq have \cup {x}
      BY <1>3, <2>1
    <2> HIDE DEF p
    <2>4. Apart(p) /\ Missed(have, p)
      BY <1>3, <2>1, <2>2 DEF Apart, Missed
    <2>5. \A z \in Promise(Look(r)) : Met(have, z, p, Len(p))
      BY <1>3, <2>1, <2>2 DEF Met
    <2>6. \A i \in 1..Len(p) : \A z \in Needs(p[i]) : Met(have, z, p, i - 1)
      <3>1. \A z \in Needs(p[1]) : Met(have, z, p, 1 - 1)
        BY <2>3 DEF Met
      <3>2. \A z \in Needs(p[2]) : Met(have, z, p, 2 - 1)
        BY <2>1, <2>2, <2>3 DEF Met
      <3> QED  BY <2>1, <3>1, <3>2
    <2>7. \A i \in 1..Len(p) : Duty(p[i]) \subseteq Duty(Look(r))
      BY <1>3, <2>1, <2>2
    <2> QED  BY <2>1, <2>4, <2>5, <2>6, <2>7 DEF Replaces, p
  <1>4. {"group", "rule", "profile", "attached"} \subseteq Resources
    BY DEF Resources
  <1>5. CASE r = "profile"
    <2>1. CASE "attached" \in have
      BY <1>2, <1>5, <2>1, Promises DEF Plan, AwsProfile, HaveOK
    <2>2. CASE "attached" \notin have /\ "profile" \notin have
      <3>1. Plan(r) = <<Make("profile"), Make("attached")>>
        BY <1>5, <2>2 DEF Plan, AwsProfile
      <3>2. /\ Needs(Make("profile")) \subseteq have
            /\ Needs(Make("attached")) \subseteq have \cup {"profile"}
            /\ Promise(Look(r)) \subseteq {"profile", "attached"}
            /\ {"profile", "attached"} \subseteq Duty(Look(r))
        BY <1>5, Promises
      <3> QED  BY <1>3, <1>4, <2>2, <3>1, <3>2
    <2>3. CASE "attached" \notin have /\ "profile" \in have
      <3> DEFINE t == Make("attached")
      <3>1. Plan(r) = <<t>>
        BY <1>5, <2>3 DEF Plan, AwsProfile
      <3>2. /\ Len(<<t>>) = 1 /\ <<t>>[1] = t /\ \A i \in 1..1 : i = 1
            /\ t \in Steps /\ <<t>> \in Seq(Steps)
        BY <1>4, StepIs
      <3>3. Promise(t) = {"attached"} /\ Duty(t) = {"attached"} /\ t.on = "attached"
        BY <1>4, Promises
      <3>4. Needs(t) \subseteq have
        BY <1>4, <1>5, <2>3, Promises
      <3>5. Promise(Look(r)) = {"profile", "attached"} /\ Duty(Look(r)) = {"profile", "attached"}
        BY <1>4, <1>5, Promises
      <3> HIDE DEF t
      <3>6. \A y \in Promise(Look(r)) : Met(have, y, <<t>>, Len(<<t>>))
        BY <2>3, <3>2, <3>3, <3>5 DEF Met
      <3>7. Apart(<<t>>) /\ Missed(have, <<t>>)
        BY <2>3, <3>2, <3>3 DEF Apart, Missed
      <3> QED  BY <3>1, <3>2, <3>3, <3>4, <3>5, <3>6, <3>7 DEF Replaces, Met
    <2> QED  BY <2>1, <2>2, <2>3
  <1>6. CASE r = "group"
    <2>1. CASE "group" \in have
      BY <1>2, <1>6, <2>1, Promises DEF Plan, AwsGroup
    <2>2. CASE "group" \notin have
      <3>1. Plan(r) = <<Make("group"), Make("rule")>> /\ "rule" \notin have
        BY <1>6, <2>2 DEF Plan, AwsGroup, HaveOK
      <3>2. /\ Needs(Make("group")) \subseteq have
            /\ Needs(Make("rule")) \subseteq have \cup {"group"}
            /\ Promise(Look(r)) \subseteq {"group", "rule"}
            /\ {"group", "rule"} \subseteq Duty(Look(r))
        BY <1>4, <1>6, Promises
      <3> QED  BY <1>3, <1>4, <2>2, <3>1, <3>2
    <2> QED  BY <2>1, <2>2
  <1>7. CASE r \notin {"profile", "group"}
    <2>1. Promise(Look(r)) = {r} /\ r \in Duty(Look(r))
      BY <1>7, Promises
    <2>2. Needs(Make(r)) \subseteq have /\ Needs(Put(r)) \subseteq have
      BY <1>7, Promises
    <2>3. Plan(r) = IF r \in have THEN <<>> ELSE IF r \in Tolerated THEN <<Put(r)>> ELSE <<Make(r)>>
      BY <1>7 DEF Plan
    <2>4. CASE r \in have
      BY <1>2, <2>1, <2>3, <2>4
    <2>5. CASE r \notin have
      BY <1>1, <2>1, <2>2, <2>3, <2>5
    <2> QED  BY <2>4, <2>5
  <1> QED  BY <1>5, <1>6, <1>7

-----------------------------------------------------------------------------
(* One launch moves on. *)

Places   == {"new", "prepare", "ip", "nic", "resend", "undoNic", "undoIp", "done",
             "failed", "cut"}
Machines == {"none", "asked", "up", "idle", "off", "broken", "gone"}
Stops    == {"none", "nic", "ip", "error", "initiated", "success"}

Becomes(l, a, s, o, i, x, n) ==
    /\ at'   = [at EXCEPT ![l] = a]   /\ todo' = [todo EXCEPT ![l] = s]
    /\ own'  = [own EXCEPT ![l] = o]  /\ inst' = [inst EXCEPT ![l] = i]
    /\ stop' = [stop EXCEPT ![l] = x] /\ made' = [made EXCEPT ![l] = n]

\* Nothing is taken back, and only l may be blamed.
Grows(l) ==
    /\ kind' = kind /\ have \subseteq have' /\ have' \subseteq Resources /\ HaveOK'
    /\ tries' \in [Launches -> 0..(Attempts - 1)]
    /\ faults' \in 0..MaxFaults /\ cuts' \in 0..MaxCuts
    /\ mute \ {l} \subseteq mute' /\ mute' \subseteq mute \cup {l}
    /\ undeleted \subseteq undeleted' /\ undeleted' \subseteq undeleted \cup {l}
    /\ hurt \subseteq hurt' /\ hurt' \subseteq Launches
    /\ blind \subseteq blind' /\ blind' \subseteq Launches

Self(l) == Placed(l) /\ Counted(l) /\ Cleared(l) /\ Blamed(l) /\ Over(l) /\ Planned(l) /\ Granted(l)

LEMMA BecomesIs ==
    ASSUME TypeOK, NEW l \in Launches, NEW a, NEW s, NEW o, NEW i, NEW x, NEW n,
           Becomes(l, a, s, o, i, x, n)
    PROVE  /\ at'[l] = a /\ todo'[l] = s /\ own'[l] = o /\ inst'[l] = i /\ stop'[l] = x
           /\ made'[l] = n
           /\ \A m \in Launches \ {l} :
                 /\ at'[m] = at[m] /\ todo'[m] = todo[m] /\ own'[m] = own[m]
                 /\ inst'[m] = inst[m] /\ stop'[m] = stop[m] /\ made'[m] = made[m]
  BY DEF TypeOK, Becomes

\* Steps that stood still stay as good as they were.
LEMMA PlannedStays ==
    ASSUME NEW m \in Launches, Planned(m), todo'[m] = todo[m], have \subseteq have',
           kind' = kind, hurt \subseteq hurt', at'[m] = "prepare" => at[m] = "prepare",
           have' = have \/ m \in hurt' \/ todo[m] = <<>>
    PROVE  Planned(m)'
  <1>1. \A r, s, n : Met(have, r, s, n) => Met(have', r, s, n)
    BY DEF Met
  <1>2. Ordered(have', todo[m]) /\ Apart(todo[m])
    BY <1>1 DEF Planned, Ordered
  <1>3. kind = "AWS" /\ at[m] = "prepare" => Leads(have', todo[m], Rights)
    BY <1>1 DEF Planned, Leads
  <1>4. m \notin hurt' => Missed(have', todo[m])
    BY DEF Planned, Missed
  <1> QED  BY <1>2, <1>3, <1>4 DEF Planned, Ordered, Apart, Leads, Missed

LEMMA OthersStay ==
    ASSUME CloudInv, NEW l \in Launches, NEW m \in Launches \ {l}, Grows(l),
           NEW a, NEW s, NEW o, NEW i, NEW x, NEW n, Becomes(l, a, s, o, i, x, n),
           have' = have \/ m \in hurt' \/ todo[m] = <<>>
    PROVE  Self(m)'
  <1>1. /\ at'[m] = at[m] /\ todo'[m] = todo[m] /\ own'[m] = own[m]
        /\ inst'[m] = inst[m] /\ stop'[m] = stop[m] /\ made'[m] = made[m]
    BY BecomesIs DEF CloudInv
  <1>2. Planned(m)'
    BY <1>1, PlannedStays DEF CloudInv, Grows
  <1> QED
    BY <1>1, <1>2 DEF CloudInv, Grows, Self, Placed, Counted, Cleared, Blamed, Over, Granted, Early

LEMMA TypesStay ==
    ASSUME TypeOK, NEW l \in Launches, Grows(l),
           NEW a \in Places, NEW s \in Seq(Steps), NEW o \in SUBSET {"ip", "nic"},
           NEW i \in Machines, NEW x \in Stops, NEW n \in Nat, Becomes(l, a, s, o, i, x, n),
           s # <<>> => a = "prepare"
    PROVE  TypeOK'
  <1>1. /\ at' \in [Launches -> Places] /\ todo' \in [Launches -> Seq(Steps)]
        /\ own' \in [Launches -> SUBSET {"ip", "nic"}] /\ inst' \in [Launches -> Machines]
        /\ stop' \in [Launches -> Stops] /\ made' \in [Launches -> Nat]
    BY DEF TypeOK, Becomes, Places, Machines, Stops
  <1>2. \A m \in Launches : todo'[m] # <<>> => at'[m] = "prepare"
    BY BecomesIs DEF TypeOK
  <1> QED
    BY <1>1, <1>2 DEF TypeOK, Grows, HaveOK, Places, Machines, Stops

LEMMA Moved ==
    ASSUME CloudInv, NEW l \in Launches, Grows(l),
           NEW a \in Places, NEW s \in Seq(Steps), NEW o \in SUBSET {"ip", "nic"},
           NEW i \in Machines, NEW x \in Stops, NEW n \in Nat, Becomes(l, a, s, o, i, x, n),
           s # <<>> => a = "prepare",
           have' = have \/ \A m \in Launches \ {l} : m \in hurt' \/ todo[m] = <<>>,
           Running(l)' => Running(l),
           Self(l)'
    PROVE  CloudInv'
  <1>1. TypeOK'
    BY TypesStay DEF CloudInv
  <1>2. \A m \in Launches : Self(m)'
    BY OthersStay
  <1>3. Alone'
    <2>1. \A m \in Launches : Running(m)' => Running(m)
      BY BecomesIs DEF CloudInv, Running
    <2> QED  BY <2>1 DEF CloudInv, Alone, Grows
  <1> QED  BY <1>1, <1>2, <1>3 DEF CloudInv, Self

LEMMA OfLaunch ==
    ASSUME CloudInv, NEW l \in Launches
    PROVE  /\ at[l] \in Places /\ todo[l] \in Seq(Steps) /\ own[l] \in SUBSET {"ip", "nic"}
           /\ inst[l] \in Machines /\ stop[l] \in Stops /\ made[l] \in Nat
           /\ todo[l] # <<>> => at[l] = "prepare"
           /\ at = [at EXCEPT ![l] = at[l]] /\ todo = [todo EXCEPT ![l] = todo[l]]
           /\ own = [own EXCEPT ![l] = own[l]] /\ inst = [inst EXCEPT ![l] = inst[l]]
           /\ stop = [stop EXCEPT ![l] = stop[l]] /\ made = [made EXCEPT ![l] = made[l]]
           /\ Self(l) /\ HaveOK /\ <<>> \in Seq(Steps)
           /\ have \subseteq Resources /\ hurt \subseteq Launches
  BY DEF CloudInv, TypeOK, Places, Machines, Stops, Self, HaveOK

LEMMA FaultsIs ==
    ASSUME CloudInv, NEW ok \in BOOLEAN, Answered(ok)
    PROVE  faults' \in 0..MaxFaults
  BY CloudAssumption DEF CloudInv, TypeOK, Answered

LEMMA GrowsIs ==
    ASSUME CloudInv, NEW l \in Launches, UNCHANGED <<kind, have>>,
           tries' \in [Launches -> 0..(Attempts - 1)], faults' \in 0..MaxFaults,
           cuts' \in 0..MaxCuts, mute' \in {mute, mute \cup {l}, mute \ {l}},
           undeleted' \in {undeleted, undeleted \cup {l}},
           hurt \subseteq hurt', hurt' \subseteq Launches,
           blind \subseteq blind', blind' \subseteq Launches
    PROVE  Grows(l)
  BY DEF Grows, CloudInv, TypeOK, HaveOK

LEMMA CountersAre ==
    ASSUME CloudInv
    PROVE  /\ tries \in [Launches -> 0..(Attempts - 1)] /\ faults \in 0..MaxFaults
           /\ cuts \in 0..MaxCuts /\ hurt \subseteq Launches /\ blind \subseteq Launches
  BY DEF CloudInv, TypeOK

LEMMA NothingPlanned ==
    ASSUME NEW l \in Launches, todo'[l] = <<>>, at'[l] # "prepare"
    PROVE  Planned(l)'
  BY DEF Planned, Apart, Ordered, Missed

LEMMA ReadyIs ==
    ASSUME CloudInv, NEW l \in Launches, Ready(l)
    PROVE  /\ at[l] \in {"prepare", "resend", "nic"} /\ todo[l] = <<>> /\ Running(l)
           /\ kind = "AZURE" => at[l] = "nic" /\ "nic" \in own[l]
           /\ kind # "AZURE" => at[l] # "nic"
           /\ kind \notin {"AZURE", "SKYPILOT"} => at[l] = "prepare"
           /\ at[l] = "prepare" => inst[l] = "none" /\ made[l] = 0
           /\ kind = "AWS" => Rights \subseteq have
  <1>1. /\ at[l] \in {"prepare", "resend", "nic"} /\ todo[l] = <<>> /\ Running(l)
        /\ kind = "AZURE" => at[l] = "nic" /\ "nic" \in own[l]
        /\ kind # "AZURE" => at[l] # "nic"
    BY OfLaunch DEF Ready, Running
  <1>2. at[l] = "resend" => kind = "SKYPILOT"
    BY OfLaunch DEF Self, Counted
  <1>3. kind = "AWS" => Rights \subseteq have
    BY <1>1, <1>2, OfLaunch DEF Self, Planned, Leads, Met
  <1> QED  BY <1>1, <1>2, <1>3, OfLaunch DEF Self, Placed, Early

\* A step that leaves the account and the plan alone.
LEMMA Advances ==
    ASSUME CloudInv, NEW l \in Launches, Grows(l), have' = have,
           NEW a \in Places, NEW o \in SUBSET {"ip", "nic"},
           NEW i \in Machines, NEW x \in Stops, NEW n \in Nat,
           NEW s \in {todo[l], <<>>}, Becomes(l, a, s, o, i, x, n),
           a = "prepare" => at[l] = "prepare" /\ s = todo[l],
           s = <<>> \/ a = at[l],
           a \notin {"new", "done", "failed", "cut"} => Running(l),
           Placed(l)' /\ Counted(l)' /\ Cleared(l)' /\ Blamed(l)' /\ Over(l)' /\ Granted(l)'
    PROVE  CloudInv'
  <1>1. at'[l] = a /\ todo'[l] = s /\ s \in Seq(Steps) /\ (s # <<>> => a = "prepare")
    <2>1. todo[l] \in Seq(Steps) /\ <<>> \in Seq(Steps) /\ (todo[l] # <<>> => at[l] = "prepare")
      BY OfLaunch
    <2>2. at'[l] = a /\ todo'[l] = s
      BY BecomesIs DEF CloudInv
    <2>3. s \in Seq(Steps)
      BY <2>1
    <2>4. s # <<>> => a = "prepare"
      BY <2>1
    <2> QED  BY <2>2, <2>3, <2>4
  <1>2. Planned(l)'
    <2>1. CASE a = "prepare"
      BY <1>1, <2>1, OfLaunch, PlannedStays DEF Self, Grows
    <2>2. CASE a # "prepare"
      BY <1>1, <2>2, NothingPlanned
    <2> QED  BY <2>1, <2>2
  <1>3. Running(l)' => Running(l)
    BY <1>1 DEF Running
  <1> QED  BY <1>1, <1>2, <1>3, Moved DEF Self

-----------------------------------------------------------------------------

LEMMA IpKeeps ==
    ASSUME CloudInv, NEW l \in Launches, NEW ok \in BOOLEAN, MakeIp(l, ok) PROVE CloudInv'
  <1> DEFINE a == IF ok THEN "ip" ELSE "undoNic"
             o == own[l] \cup {"ip"}
  <1>1. Becomes(l, a, <<>>, o, inst[l], stop[l], made[l]) /\ o \in SUBSET {"ip", "nic"}
        /\ a \in Places
    BY OfLaunch DEF MakeIp, Goes, Thrown, history, counters, Becomes, Places
  <1>2. Grows(l) /\ have' = have
    BY GrowsIs, CountersAre, FaultsIs DEF MakeIp, HurtUnless
  <1>3. /\ at'[l] = a /\ own'[l] = o /\ inst'[l] = inst[l] /\ stop'[l] = stop[l]
        /\ made'[l] = made[l] /\ (a = "undoNic" => l \in hurt') /\ undeleted' = undeleted
        /\ kind' = "AZURE" /\ at[l] = "prepare" /\ todo[l] = <<>>
    BY <1>1, BecomesIs DEF MakeIp, HurtUnless, CloudInv
  <1>4. Placed(l)' /\ Counted(l)' /\ Cleared(l)' /\ Blamed(l)' /\ Over(l)' /\ Granted(l)'
    BY <1>2, <1>3, OfLaunch DEF Self, Placed, Counted, Cleared, Blamed, Over, Granted, Early, Grows, MakeIp
  <1> QED
    BY <1>1, <1>2, <1>3, <1>4, OfLaunch, Advances DEF Running

LEMMA NicKeeps ==
    ASSUME CloudInv, NEW l \in Launches, NEW ok \in BOOLEAN, MakeNic(l, ok) PROVE CloudInv'
  <1> DEFINE a == IF ok THEN "nic" ELSE "undoNic"
             o == own[l] \cup {"nic"}
  <1>0. kind = "AZURE" /\ at[l] = "ip" /\ todo[l] = <<>>
    BY OfLaunch DEF MakeNic, Self, Placed
  <1>1. Becomes(l, a, <<>>, o, inst[l], stop[l], made[l]) /\ o \in SUBSET {"ip", "nic"}
        /\ a \in Places
    BY <1>0, OfLaunch DEF MakeNic, Goes, Thrown, history, counters, Becomes, Places
  <1>2. Grows(l) /\ have' = have
    BY GrowsIs, CountersAre, FaultsIs DEF MakeNic, HurtUnless
  <1>3. /\ at'[l] = a /\ own'[l] = o /\ inst'[l] = inst[l] /\ stop'[l] = stop[l]
        /\ made'[l] = made[l] /\ (a = "undoNic" => l \in hurt') /\ undeleted' = undeleted
        /\ kind' = "AZURE" /\ mute' = mute
    BY <1>0, <1>1, BecomesIs DEF MakeNic, HurtUnless, CloudInv
  <1>4. Placed(l)' /\ Counted(l)' /\ Cleared(l)' /\ Blamed(l)' /\ Over(l)' /\ Granted(l)'
    BY <1>0, <1>2, <1>3, OfLaunch DEF Self, Placed, Counted, Cleared, Blamed, Over, Granted, Early, Grows
  <1> QED
    BY <1>0, <1>1, <1>2, <1>3, <1>4, OfLaunch, Advances DEF Running

LEMMA UndercutKeeps ==
    ASSUME CloudInv, NEW l \in Launches, Undercut(l) PROVE CloudInv'
  <1>0. kind = "AZURE" /\ at[l] \in {"ip", "nic"} /\ todo[l] = <<>> /\ l \in hurt
    BY OfLaunch DEF Undercut, Self, Placed, Blamed, Holds
  <1>1. Becomes(l, "undoNic", <<>>, own[l], inst[l], stop[l], made[l]) /\ "undoNic" \in Places
    BY <1>0, OfLaunch DEF Undercut, Goes, Thrown, history, counters, Becomes, Places
  <1>2. Grows(l) /\ have' = have
    BY GrowsIs, CountersAre DEF Undercut, history, counters
  <1>3. /\ at'[l] = "undoNic" /\ own'[l] = own[l] /\ inst'[l] = inst[l] /\ stop'[l] = stop[l]
        /\ made'[l] = made[l] /\ undeleted' = undeleted /\ kind' = "AZURE" /\ hurt' = hurt
        /\ mute' = mute
    BY <1>0, <1>1, BecomesIs DEF Undercut, history, counters, CloudInv
  <1>4. Placed(l)' /\ Counted(l)' /\ Cleared(l)' /\ Blamed(l)' /\ Over(l)' /\ Granted(l)'
    BY <1>0, <1>2, <1>3, OfLaunch DEF Self, Placed, Counted, Cleared, Blamed, Over, Granted, Early, Grows
  <1> QED
    BY <1>0, <1>1, <1>2, <1>3, <1>4, OfLaunch, Advances DEF Running

LEMMA UndoNicKeeps ==
    ASSUME CloudInv, NEW l \in Launches, NEW ok \in BOOLEAN, UndoNic(l, ok) PROVE CloudInv'
  <1> DEFINE o == IF ok THEN WithoutNic(l) ELSE own[l]
  <1>0. at[l] = "undoNic" /\ todo[l] = <<>> /\ kind = "AZURE" /\ o \subseteq own[l]
    BY OfLaunch DEF UndoNic, Self, Placed, WithoutNic
  <1>1. Becomes(l, "undoIp", <<>>, o, inst[l], stop[l], made[l]) /\ "undoIp" \in Places
    BY <1>0, OfLaunch DEF UndoNic, Deleted, Goes, history, counters, Becomes, Places
  <1>2. Grows(l) /\ have' = have
    BY GrowsIs, CountersAre DEF UndoNic, Deleted, history, counters
  <1>3. /\ at'[l] = "undoIp" /\ own'[l] = o /\ inst'[l] = inst[l] /\ stop'[l] = stop[l]
        /\ made'[l] = made[l] /\ kind' = "AZURE" /\ hurt' = hurt /\ mute' = mute
        /\ (~ ok => l \in undeleted')
    BY <1>0, <1>1, BecomesIs DEF UndoNic, Deleted, history, counters, CloudInv
  <1>4. inst[l] = "none" /\ ok => "nic" \notin o
    BY DEF WithoutNic, Holds
  <1>5. Placed(l)' /\ Counted(l)' /\ Cleared(l)' /\ Blamed(l)' /\ Over(l)' /\ Granted(l)'
    <2> HIDE DEF o
    <2> QED
      BY <1>0, <1>2, <1>3, <1>4, OfLaunch DEF Self, Placed, Counted, Cleared, Blamed, Over, Granted, Early, Grows
  <1> QED
    BY <1>0, <1>1, <1>2, <1>3, <1>5, OfLaunch, Advances DEF Running

LEMMA UndoIpKeeps ==
    ASSUME CloudInv, NEW l \in Launches, NEW ok \in BOOLEAN, UndoIp(l, ok) PROVE CloudInv'
  <1> DEFINE o == IF ok THEN WithoutIp(l) ELSE own[l]
  <1>0. at[l] = "undoIp" /\ todo[l] = <<>> /\ kind = "AZURE" /\ o \subseteq own[l]
    BY OfLaunch DEF UndoIp, Self, Placed, WithoutIp
  <1>1. Becomes(l, "failed", <<>>, o, inst[l], stop[l], made[l]) /\ "failed" \in Places
    BY <1>0, OfLaunch DEF UndoIp, Deleted, Goes, history, counters, Becomes, Places
  <1>2. Grows(l) /\ have' = have
    BY GrowsIs, CountersAre DEF UndoIp, Deleted, history, counters
  <1>3. /\ at'[l] = "failed" /\ own'[l] = o /\ inst'[l] = inst[l] /\ stop'[l] = stop[l]
        /\ made'[l] = made[l] /\ kind' = "AZURE" /\ hurt' = hurt /\ mute' = mute
        /\ (~ ok => l \in undeleted') /\ undeleted \subseteq undeleted'
    BY <1>0, <1>1, BecomesIs DEF UndoIp, Deleted, history, counters, CloudInv
  <1>4. "nic" \notin own[l] /\ ok => o = {}
    BY OfLaunch DEF WithoutIp
  <1>5. Placed(l)' /\ Counted(l)' /\ Cleared(l)' /\ Blamed(l)' /\ Over(l)' /\ Granted(l)'
    <2> HIDE DEF o
    <2> QED
      BY <1>0, <1>2, <1>3, <1>4, OfLaunch DEF Self, Placed, Counted, Cleared, Blamed, Over, Granted, Early, Grows
  <1> QED
    BY <1>0, <1>1, <1>2, <1>3, <1>5, OfLaunch, Advances DEF Running

LEMMA CreatesKeep ==
    ASSUME CloudInv, NEW l \in Launches, NEW ok \in BOOLEAN, NEW i \in {"up", "asked"},
           Creates(l, ok, i), mute' \in {mute, mute \cup {l}}, kind # "AZURE"
    PROVE  CloudInv'
  <1> DEFINE a == IF ok THEN "done" ELSE "failed"
  <1>0. /\ at[l] \in {"prepare", "resend"} /\ todo[l] = <<>> /\ Running(l)
        /\ at[l] = "prepare" => inst[l] = "none" /\ made[l] = 0
        /\ at[l] = "resend" => kind = "SKYPILOT"
        /\ kind = "AWS" => Rights \subseteq have
    BY ReadyIs DEF Creates
  <1>1. Becomes(l, a, <<>>, own[l], i, stop[l], made[l] + 1) /\ a \in Places
    BY <1>0, OfLaunch DEF Creates, Goes, Thrown, Becomes, Places
  <1>2. Grows(l) /\ have' = have /\ undeleted' = undeleted
    BY GrowsIs, CountersAre, FaultsIs DEF Creates, HurtUnless
  <1>3. /\ at'[l] = a /\ own'[l] = own[l] /\ inst'[l] = i /\ stop'[l] = stop[l]
        /\ made'[l] = made[l] + 1 /\ (~ ok => l \in hurt')
    BY <1>0, <1>1, BecomesIs DEF Creates, HurtUnless, CloudInv
  <1>4. made[l] = 0 \/ (made[l] = 1 /\ kind = "SKYPILOT" /\ l \in hurt)
    BY <1>0, OfLaunch DEF Self, Counted
  <1>5. Placed(l)' /\ Counted(l)' /\ Cleared(l)' /\ Blamed(l)' /\ Granted(l)'
    BY <1>0, <1>2, <1>3, <1>4, OfLaunch
    DEF Self, Placed, Counted, Cleared, Blamed, Granted, Early, Grows
  <1>6. Over(l)'
    BY <1>0, <1>2, <1>3, <1>4, OfLaunch DEF Self, Placed, Over, Grows
  <1>7. i \in Machines /\ made[l] + 1 \in Nat
    BY OfLaunch DEF Machines
  <1> QED
    BY <1>0, <1>1, <1>2, <1>3, <1>5, <1>6, <1>7, OfLaunch, Advances

\* Azure: the machine that has the name is the one that is meant.
LEMMA PutKeeps ==
    ASSUME CloudInv, NEW l \in Launches, NEW ok \in BOOLEAN,
           NEW i \in {"up", "idle", "broken"}, PutVm(l, ok, i),
           mute' \in {mute, mute \cup {l}, mute \ {l}}, i = "idle" => l \in mute'
    PROVE  CloudInv'
  <1>0. /\ kind = "AZURE" /\ at[l] = "nic" /\ "nic" \in own[l]
        /\ todo[l] = <<>> /\ Running(l)
    BY ReadyIs DEF PutVm
  <1>1. \/ inst[l] = "none" /\ made[l] = 0 /\ ~ Holds(l)
        \/ made[l] = 1 /\ Holds(l)
    BY <1>0, OfLaunch DEF Self, Placed, Counted, Machines, Holds
  <1>2. PICK a \in {"done", "undoNic", "nic"} :
           at' = [at EXCEPT ![l] = a] /\ (a # "done" => ~ ok)
    BY <1>0, OfLaunch DEF PutVm, Goes, NextImage, Thrown
  <1>3. tries' \in [Launches -> 0..(Attempts - 1)]
    <2>1. tries[l] + 1 < Attempts => tries[l] + 1 \in 0..(Attempts - 1)
      BY CountersAre, CloudAssumption
    <2> QED  BY <2>1, CountersAre DEF PutVm, NextImage
  <1>4. Becomes(l, a, <<>>, own[l], i, stop[l], 1) /\ a \in Places /\ i \in Machines
    <2>1. made' = [made EXCEPT ![l] = 1]
      <3>1. (IF Holds(l) THEN made[l] ELSE made[l] + 1) = 1
        BY <1>1
      <3>2. made' = [made EXCEPT ![l] = IF Holds(l) THEN made[l] ELSE made[l] + 1]
        BY DEF PutVm
      <3> QED  BY <3>1, <3>2
    <2>2. /\ inst' = [inst EXCEPT ![l] = i] /\ UNCHANGED <<todo, own, stop>>
          /\ a \in Places /\ i \in Machines
      BY DEF PutVm, Places, Machines
    <2> QED  BY <1>0, <1>2, <2>1, <2>2, OfLaunch DEF Becomes
  <1>5. Grows(l) /\ have' = have /\ undeleted' = undeleted /\ blind' = blind
    BY <1>3, GrowsIs, CountersAre, FaultsIs DEF PutVm, HurtUnless
  <1>6. /\ at'[l] = a /\ own'[l] = own[l] /\ inst'[l] = i /\ stop'[l] = stop[l]
        /\ made'[l] = 1 /\ (~ ok => l \in hurt') /\ kind' = "AZURE"
    BY <1>0, <1>4, BecomesIs DEF PutVm, HurtUnless, CloudInv
  <1>7. Placed(l)' /\ Counted(l)' /\ Cleared(l)' /\ Blamed(l)' /\ Over(l)' /\ Granted(l)'
    BY <1>0, <1>1, <1>2, <1>5, <1>6, OfLaunch
    DEF Self, Placed, Counted, Cleared, Blamed, Over, Granted, Early, Grows, Holds
  <1> QED
    BY <1>0, <1>2, <1>4, <1>5, <1>6, <1>7, OfLaunch, Advances

\* SkyPilot: the request will be sent once more.
LEMMA RaisesKeep ==
    ASSUME CloudInv, NEW l \in Launches, NEW taken \in BOOLEAN, SdkRaises(l, taken)
    PROVE  CloudInv'
  <1> DEFINE i == IF taken THEN "asked" ELSE "none"
             n == IF taken THEN 1 ELSE 0
  <1>0. /\ kind = "SKYPILOT" /\ at[l] = "prepare" /\ todo[l] = <<>> /\ Running(l)
        /\ inst[l] = "none" /\ made[l] = 0
    BY ReadyIs DEF SdkRaises
  <1>1. Becomes(l, "resend", <<>>, own[l], i, stop[l], n) /\ "resend" \in Places
        /\ i \in Machines /\ n \in Nat
    BY <1>0, OfLaunch DEF SdkRaises, Goes, Becomes, Places, Machines
  <1>2. Grows(l) /\ have' = have /\ undeleted' = undeleted /\ mute' = mute
    <2>1. faults' \in 0..MaxFaults
      BY FaultsIs DEF SdkRaises
    <2> QED  BY <2>1, GrowsIs, CountersAre DEF SdkRaises, HurtUnless
  <1>3. /\ at'[l] = "resend" /\ own'[l] = own[l] /\ inst'[l] = i /\ stop'[l] = stop[l]
        /\ made'[l] = n /\ (taken => l \in hurt') /\ kind' = kind
    BY <1>1, BecomesIs DEF SdkRaises, HurtUnless, CloudInv
  <1>4. Placed(l)' /\ Counted(l)' /\ Cleared(l)' /\ Blamed(l)' /\ Over(l)' /\ Granted(l)'
    BY <1>0, <1>2, <1>3, OfLaunch
    DEF Self, Placed, Counted, Cleared, Blamed, Over, Granted, Early, Grows
  <1> QED
    BY <1>0, <1>1, <1>2, <1>3, <1>4, OfLaunch, Advances

LEMMA SlurmRefuses ==
    ASSUME CloudInv, NEW l \in Launches, Ready(l), kind = "SLURM", Goes(l, "done"),
           UNCHANGED <<kind, have, todo, tries, own, inst, mute, stop, undeleted, history, counters>>
    PROVE  CloudInv'
  <1>0. at[l] = "prepare" /\ todo[l] = <<>>
    BY ReadyIs
  <1>1. Becomes(l, "done", <<>>, own[l], inst[l], stop[l], made[l]) /\ "done" \in Places
    BY <1>0, OfLaunch DEF Goes, history, Becomes, Places
  <1>2. Grows(l) /\ have' = have
    BY GrowsIs, CountersAre DEF history, counters
  <1>3. /\ at'[l] = "done" /\ own'[l] = own[l] /\ inst'[l] = inst[l] /\ stop'[l] = stop[l]
        /\ made'[l] = made[l]
    BY <1>1, BecomesIs DEF CloudInv
  <1>4. Placed(l)' /\ Counted(l)' /\ Cleared(l)' /\ Blamed(l)' /\ Over(l)' /\ Granted(l)'
    BY <1>0, <1>2, <1>3, OfLaunch DEF Self, Placed, Counted, Cleared, Blamed, Over, Granted, Early, Grows
  <1> QED
    BY <1>0, <1>1, <1>2, <1>3, <1>4, OfLaunch, Advances

LEMMA CreateKeeps ==
    ASSUME CloudInv, NEW l \in Launches, NEW ok \in BOOLEAN, Create(l, ok) PROVE CloudInv'
  <1>1. CASE CreateVm(l, ok)
    <2>1. inst[l] = "idle" => l \in mute
      BY OfLaunch DEF Self, Granted
    <2> QED  BY <1>1, <2>1, PutKeeps DEF CreateVm
  <1>2. CASE RequestSky(l, ok)
    BY <1>2, CreatesKeep DEF RequestSky, Queued
  <1> QED
    BY <1>1, <1>2, CreatesKeep, SlurmRefuses
    DEF Create, RunEc2, InsertGce, CreateNamed, SubmitRun, SubmitSlurm

LEMMA AgainKeeps ==
    ASSUME CloudInv, NEW l \in Launches, TryAgain(l) PROVE CloudInv'
  <1>0. todo[l] = <<>> /\ Running(l)
    BY ReadyIs DEF TryAgain
  <1>1. Becomes(l, at[l], todo[l], own[l], inst[l], stop[l], made[l])
    BY OfLaunch DEF TryAgain, history, Becomes
  <1>2. tries' \in [Launches -> 0..(Attempts - 1)]
    <2>1. tries[l] + 1 \in 0..(Attempts - 1)
      BY CountersAre, CloudAssumption DEF TryAgain
    <2> QED  BY <2>1, CountersAre DEF TryAgain
  <1>3. Grows(l) /\ have' = have
    BY <1>2, GrowsIs, CountersAre DEF TryAgain, history, counters
  <1>4. Placed(l)' /\ Counted(l)' /\ Cleared(l)' /\ Blamed(l)' /\ Over(l)' /\ Granted(l)'
    BY OfLaunch DEF TryAgain, history, Self, Placed, Counted, Cleared, Blamed, Over, Granted
  <1> QED
    BY <1>0, <1>1, <1>3, <1>4, OfLaunch, Advances

LEMMA BreakKeeps ==
    ASSUME CloudInv, NEW l \in Launches, CreateBreaks(l) PROVE CloudInv'
  BY PutKeeps DEF CreateBreaks

LEMMA RaiseKeeps ==
    ASSUME CloudInv, NEW l \in Launches, Raise(l) PROVE CloudInv'
  <1> DEFINE a == Thrown(l)
  <1>0. Running(l) /\ at[l] \in {"prepare", "ip", "nic", "resend"}
    BY OfLaunch DEF Raise, Running, Places
  <1>5. \/ a = "undoNic" /\ kind = "AZURE"
        \/ a = "failed" /\ at[l] \in {"prepare", "resend"} /\ own[l] = {}
    <2>1. at[l] \in {"ip", "nic"} => todo[l] = <<>> /\ kind = "AZURE"
      BY OfLaunch DEF Self, Placed
    <2>2. at[l] = "resend" => kind # "AZURE"
      BY OfLaunch DEF Self, Counted
    <2>3. at[l] \in {"prepare", "resend"} => own[l] = {}
      BY OfLaunch DEF Self, Cleared
    <2> QED  BY <1>0, <2>1, <2>2, <2>3 DEF Thrown
  <1>1. Becomes(l, a, <<>>, own[l], inst[l], stop[l], made[l])
    BY OfLaunch DEF Raise, Goes, Becomes
  <1>2. Grows(l) /\ have' = have /\ l \in hurt' /\ kind' = kind /\ undeleted' = undeleted
        /\ mute' = mute
    BY GrowsIs, CountersAre, FaultsIs DEF Raise, HurtUnless
  <1>3. /\ at'[l] = a /\ own'[l] = own[l] /\ inst'[l] = inst[l] /\ stop'[l] = stop[l]
        /\ made'[l] = made[l]
    BY <1>1, BecomesIs DEF CloudInv
  <1>6. a \in Places /\ a # "prepare" /\ a \in {"undoNic", "failed"}
    BY <1>5 DEF Places
  <1> HIDE DEF a
  <1>7. Cleared(l)'
    BY <1>2, <1>3, <1>5, <1>6, OfLaunch DEF Self, Cleared
  <1>4. Placed(l)' /\ Counted(l)' /\ Blamed(l)' /\ Over(l)' /\ Granted(l)'
    BY <1>2, <1>3, <1>5, <1>6, OfLaunch
    DEF Self, Placed, Counted, Blamed, Over, Granted, Early, Grows
  <1> QED
    BY <1>0, <1>1, <1>2, <1>3, <1>4, <1>5, <1>6, <1>7, OfLaunch, Advances

LEMMA CutKeepsMachine ==
    ASSUME CloudInv, NEW l \in Launches, Cut(l) PROVE CloudInv'
  <1>1. Becomes(l, "cut", <<>>, own[l], inst[l], stop[l], made[l]) /\ "cut" \in Places
    BY OfLaunch DEF Cut, Goes, Becomes, Places
  <1>2. Grows(l) /\ have' = have /\ kind' = kind /\ hurt \subseteq hurt' /\ mute' = mute
    <2>1. cuts' \in 0..MaxCuts
      BY CountersAre, CloudAssumption DEF Cut
    <2> QED  BY <2>1, GrowsIs, CountersAre DEF Cut
  <1>3. /\ at'[l] = "cut" /\ own'[l] = own[l] /\ inst'[l] = inst[l] /\ stop'[l] = stop[l]
        /\ made'[l] = made[l]
    BY <1>1, BecomesIs DEF CloudInv
  <1>4. Placed(l)' /\ Counted(l)' /\ Cleared(l)' /\ Blamed(l)' /\ Over(l)' /\ Granted(l)'
    BY <1>2, <1>3, OfLaunch
    DEF Self, Placed, Counted, Cleared, Blamed, Over, Granted, Early, Grows
  <1> QED
    BY <1>1, <1>2, <1>3, <1>4, OfLaunch, Advances

\* The launch stands still while something happens to its machine.
LEMMA MachineMoves ==
    ASSUME CloudInv, NEW l \in Launches, Grows(l), have' = have,
           NEW o, o \subseteq own[l], NEW i \in Machines, NEW x \in Stops,
           Becomes(l, at[l], todo[l], o, i, x, made[l]),
           inst[l] = "none" <=> i = "none",
           o = own[l] \/ inst[l] # "none" \/ stop[l] \in {"nic", "ip"},
           kind = "AZURE" => i # "asked" /\ (i = "gone" => "nic" \notin o),
           x \in {"nic", "ip", "success"} => l \in blind' \/ made[l] > 1 \/ i = "gone",
           x \in {"nic", "ip"} => kind = "AZURE" /\ l \in hurt',
           i = "idle" => l \in mute'
    PROVE  CloudInv'
  <1>1. /\ at'[l] = at[l] /\ todo'[l] = todo[l] /\ own'[l] = o /\ inst'[l] = i
        /\ stop'[l] = x /\ made'[l] = made[l] /\ kind' = kind
        /\ hurt \subseteq hurt' /\ undeleted \subseteq undeleted' /\ blind \subseteq blind'
        /\ o \in SUBSET {"ip", "nic"}
    BY BecomesIs, OfLaunch DEF CloudInv, Grows
  <1>2. Placed(l)' /\ Counted(l)' /\ Over(l)' /\ Granted(l)'
    BY <1>1, OfLaunch DEF Self, Placed, Counted, Over, Granted, Early
  <1>3. Cleared(l)'
    <2>1. at[l] \in {"new", "prepare", "resend"} => o = {}
      BY OfLaunch DEF Self, Cleared
    <2>2. ASSUME inst[l] = "none", l \notin undeleted
          PROVE  (at[l] = "undoIp" => "nic" \notin o) /\ (at[l] = "failed" => o = {})
      BY <2>2, OfLaunch DEF Self, Cleared
    <2> QED  BY <1>1, <2>1, <2>2 DEF Cleared
  <1>4. Blamed(l)'
    <2>1. at[l] \in {"ip", "nic"} /\ o # own[l] => l \in hurt
      BY OfLaunch DEF Self, Placed, Blamed, Early
    <2>2. at[l] = "nic" /\ i # "none" => l \in hurt
      BY OfLaunch DEF Self, Blamed
    <2> QED  BY <1>1, <2>1, <2>2, OfLaunch DEF Self, Blamed
  <1>5. at[l] \notin {"new", "done", "failed", "cut"} => Running(l)
    BY DEF Running
  <1> QED
    BY <1>1, <1>2, <1>3, <1>4, <1>5, OfLaunch, Advances

LEMMA ProvisionKeeps ==
    ASSUME CloudInv, NEW l \in Launches, Provision(l) PROVE CloudInv'
  <1>1. PICK i \in {"up", "gone"} : inst' = [inst EXCEPT ![l] = i]
    BY DEF Provision
  <1>2. Becomes(l, at[l], todo[l], own[l], i, stop[l], made[l]) /\ i \in Machines
    BY <1>1, OfLaunch DEF Provision, launchVars, history, Becomes, Machines
  <1>3. Grows(l) /\ have' = have /\ hurt' = hurt /\ blind' = blind
    BY GrowsIs, CountersAre DEF Provision, launchVars, history, counters
  <1>4. inst[l] = "asked" /\ kind # "AZURE"
    BY OfLaunch DEF Provision, Self, Placed
  <1>5. /\ stop[l] \in {"nic", "ip", "success"} => l \in blind \/ made[l] > 1
        /\ stop[l] \in {"nic", "ip"} => kind = "AZURE" /\ l \in hurt
    BY <1>4, OfLaunch DEF Self, Over, Blamed
  <1> QED
    BY <1>2, <1>3, <1>4, <1>5, OfLaunch, MachineMoves

LEMMA FinishKeeps ==
    ASSUME CloudInv, NEW l \in Launches, Finish(l) PROVE CloudInv'
  <1>0. /\ inst[l] = "up" /\ UNCHANGED <<kind, have, launchVars, stop, undeleted, history, cuts>>
        /\ (stop[l] \in {"nic", "ip", "success"} => l \in blind \/ made[l] > 1)
        /\ (stop[l] \in {"nic", "ip"} => kind = "AZURE" /\ l \in hurt)
    BY OfLaunch DEF Finish, Self, Over, Blamed
  <1>1. ~ MayEnd(l) => l \in mute
    BY <1>0, OfLaunch DEF MayEnd, Self, Granted, Rights
  <1>2. \E i \in {"gone", "idle", "off"}, o \in {own[l], own[l] \ {"nic"}} :
           /\ inst' = [inst EXCEPT ![l] = i] /\ own' = [own EXCEPT ![l] = o]
           /\ (i = "gone" => "nic" \notin o)
           /\ mute' \in {mute, mute \cup {l}} /\ (i = "idle" => l \in mute')
           /\ faults' \in 0..MaxFaults
    <2>1. CASE MayEnd(l) /\ Leaves(l) /\ UNCHANGED <<mute, faults>>
      BY <2>1, CountersAre DEF Leaves
    <2>2. CASE ~ MayEnd(l) /\ Stays(l, "idle") /\ UNCHANGED <<mute, faults>>
      BY <1>1, <2>2, CountersAre, OfLaunch DEF Stays
    <2>3. CASE /\ Answered(FALSE) /\ mute' = mute \cup {l}
               /\ Stays(l, IF kind \in {"NEBIUS", "LAMBDA"} THEN "off" ELSE "idle")
      BY <2>3, FaultsIs, OfLaunch DEF Stays
    <2> QED  BY <2>1, <2>2, <2>3 DEF Finish
  <1>3. PICK i \in {"gone", "idle", "off"}, o \in {own[l], own[l] \ {"nic"}} :
           /\ inst' = [inst EXCEPT ![l] = i] /\ own' = [own EXCEPT ![l] = o]
           /\ (i = "gone" => "nic" \notin o)
           /\ mute' \in {mute, mute \cup {l}} /\ (i = "idle" => l \in mute')
           /\ faults' \in 0..MaxFaults
    BY <1>2
  <1>4. Becomes(l, at[l], todo[l], o, i, stop[l], made[l]) /\ i \in Machines /\ o \subseteq own[l]
    BY <1>0, <1>3, OfLaunch DEF launchVars, history, Becomes, Machines
  <1>5. Grows(l) /\ have' = have /\ hurt' = hurt /\ blind' = blind
    BY <1>0, <1>3, GrowsIs, CountersAre DEF launchVars, history
  <1> QED
    BY <1>0, <1>3, <1>4, <1>5, OfLaunch, MachineMoves

LEMMA EvictKeeps ==
    ASSUME CloudInv, NEW l \in Launches, Evict(l) PROVE CloudInv'
  <1>0. /\ inst[l] = "up" /\ UNCHANGED <<kind, have, launchVars, mute, stop, undeleted, history, counters>>
        /\ (stop[l] \in {"nic", "ip", "success"} => l \in blind \/ made[l] > 1)
        /\ (stop[l] \in {"nic", "ip"} => kind = "AZURE" /\ l \in hurt)
    BY OfLaunch DEF Evict, Self, Over, Blamed
  <1>2. \E i \in {"gone", "off"}, o \in {own[l], own[l] \ {"nic"}} :
           /\ inst' = [inst EXCEPT ![l] = i] /\ own' = [own EXCEPT ![l] = o]
           /\ (i = "gone" => "nic" \notin o)
    BY OfLaunch DEF Evict, Stays, Leaves
  <1>3. PICK i \in {"gone", "off"}, o \in {own[l], own[l] \ {"nic"}} :
           /\ inst' = [inst EXCEPT ![l] = i] /\ own' = [own EXCEPT ![l] = o]
           /\ (i = "gone" => "nic" \notin o)
    BY <1>2
  <1>4. Becomes(l, at[l], todo[l], o, i, stop[l], made[l]) /\ i \in Machines /\ o \subseteq own[l]
    BY <1>0, <1>3, OfLaunch DEF launchVars, history, Becomes, Machines
  <1>5. Grows(l) /\ have' = have /\ hurt' = hurt /\ blind' = blind
    BY <1>0, GrowsIs, CountersAre DEF launchVars, history, counters
  <1> QED
    BY <1>0, <1>3, <1>4, <1>5, OfLaunch, MachineMoves

\* A stop request ends the machine, or changes nothing but its answer.
LEMMA StopKeeps ==
    ASSUME CloudInv, NEW l \in Launches, NEW x \in Stops, Replies(l, x),
           \/ Leaves(l) /\ inst[l] # "none"
           \/ UNCHANGED <<inst, own>> /\ (x \in {"nic", "success"} => l \in blind'),
           x # "ip",
           UNCHANGED <<kind, have, launchVars, mute, undeleted, made, counters>>,
           hurt \subseteq hurt', hurt' \subseteq Launches,
           blind \subseteq blind', blind' \subseteq Launches,
           x = "nic" => kind = "AZURE" /\ l \in hurt'
    PROVE  CloudInv'
  <1>1. \E i \in {"gone", inst[l]}, o \in {own[l], own[l] \ {"nic"}} :
           /\ inst' = [inst EXCEPT ![l] = i] /\ own' = [own EXCEPT ![l] = o]
           /\ \/ i = "gone" /\ inst[l] # "none" /\ "nic" \notin o
              \/ i = inst[l] /\ o = own[l] /\ (x \in {"nic", "success"} => l \in blind')
    <2>1. CASE Leaves(l) /\ inst[l] # "none"
      BY <2>1 DEF Leaves
    <2>2. CASE UNCHANGED <<inst, own>> /\ (x \in {"nic", "success"} => l \in blind')
      <3>1. inst' = [inst EXCEPT ![l] = inst[l]] /\ own' = [own EXCEPT ![l] = own[l]]
        BY <2>2, OfLaunch
      <3> QED  BY <2>2, <3>1
    <2> QED  BY <2>1, <2>2
  <1>2. PICK i \in {"gone", inst[l]}, o \in {own[l], own[l] \ {"nic"}} :
           /\ inst' = [inst EXCEPT ![l] = i] /\ own' = [own EXCEPT ![l] = o]
           /\ \/ i = "gone" /\ inst[l] # "none" /\ "nic" \notin o
              \/ i = inst[l] /\ o = own[l] /\ (x \in {"nic", "success"} => l \in blind')
    BY <1>1
  <1>3. Becomes(l, at[l], todo[l], o, i, x, made[l]) /\ i \in Machines /\ o \subseteq own[l]
    BY <1>2, OfLaunch DEF launchVars, Replies, Becomes, Machines
  <1>4. Grows(l) /\ have' = have
    BY GrowsIs, CountersAre DEF launchVars, counters
  <1>5. i = "idle" => l \in mute'
    BY <1>2, OfLaunch DEF Self, Granted
  <1>6. /\ inst[l] = "none" <=> i = "none"
        /\ kind = "AZURE" => i # "asked" /\ (i = "gone" => "nic" \notin o)
    BY <1>2, OfLaunch DEF Self, Placed
  <1>7. o = own[l] \/ inst[l] # "none" \/ stop[l] \in {"nic", "ip"}
    BY <1>2
  <1>8. x \in {"nic", "ip", "success"} => l \in blind' \/ made[l] > 1 \/ i = "gone"
    BY <1>2
  <1> QED
    BY <1>3, <1>4, <1>5, <1>6, <1>7, <1>8, MachineMoves

LEMMA ClearingKeeps ==
    ASSUME CloudInv, NEW l \in Launches, NEW ok \in BOOLEAN, StopNic(l, ok) \/ StopIp(l, ok)
    PROVE  CloudInv'
  <1>0. /\ stop[l] \in {"nic", "ip"} /\ kind = "AZURE" /\ l \in hurt
        /\ l \in blind \/ made[l] > 1 \/ inst[l] = "gone"
        /\ UNCHANGED <<kind, have, launchVars, inst, mute, history, counters>>
    BY OfLaunch DEF StopNic, StopIp, Self, Blamed, Over
  <1>1. \E o \in {own[l], WithoutNic(l), WithoutIp(l)}, x \in {"ip", "success"} :
           /\ own' = [own EXCEPT ![l] = o] /\ Replies(l, x)
           /\ undeleted' \in {undeleted, undeleted \cup {l}}
    BY OfLaunch DEF StopNic, StopIp, Deleted
  <1>2. PICK o \in {own[l], WithoutNic(l), WithoutIp(l)}, x \in {"ip", "success"} :
           /\ own' = [own EXCEPT ![l] = o] /\ Replies(l, x)
           /\ undeleted' \in {undeleted, undeleted \cup {l}}
    BY <1>1
  <1>3. o \subseteq own[l]
    BY <1>2 DEF WithoutNic, WithoutIp
  <1>4. Becomes(l, at[l], todo[l], o, inst[l], x, made[l]) /\ x \in Stops
    BY <1>0, <1>2, OfLaunch DEF launchVars, history, Replies, Becomes, Stops
  <1>5. Grows(l) /\ have' = have /\ hurt' = hurt /\ blind' = blind
    BY <1>0, <1>2, GrowsIs, CountersAre DEF launchVars, history, counters
  <1>6. inst[l] = "idle" => l \in mute'
    BY <1>0, OfLaunch DEF Self, Granted
  <1>7. inst[l] # "asked" /\ (inst[l] = "gone" => "nic" \notin o)
    BY <1>0, <1>3, OfLaunch DEF Self, Placed
  <1> QED
    BY <1>0, <1>3, <1>4, <1>5, <1>6, <1>7, OfLaunch, MachineMoves

LEMMA StopsKeep ==
    ASSUME CloudInv, NEW l \in Launches, Stop(l) PROVE CloudInv'
  <1>0. {"success", "error", "initiated", "nic"} \subseteq Stops /\ (Holds(l) => inst[l] # "none")
        /\ hurt \subseteq Launches /\ blind \subseteq Launches
    BY OfLaunch, CountersAre DEF Stops, Holds
  <1>1. CASE StopByName(l)
    BY <1>0, <1>1, StopKeeps DEF StopByName, history
  <1>2. CASE StopSky(l)
    BY <1>0, <1>2, StopKeeps DEF StopSky
  <1>3. CASE StopRun(l)
    BY <1>0, <1>3, StopKeeps DEF StopRun, history
  <1>4. CASE StopSlurm(l)
    BY <1>0, <1>4, StopKeeps DEF StopSlurm
  <1>5. CASE StopAzure(l)
    BY <1>0, <1>5, StopKeeps DEF StopAzure
  <1>6. ASSUME NEW ok \in BOOLEAN, StopNic(l, ok) \/ StopIp(l, ok) PROVE CloudInv'
    BY <1>6, ClearingKeeps
  <1> QED  BY <1>1, <1>2, <1>3, <1>4, <1>5, <1>6 DEF Stop

-----------------------------------------------------------------------------

LEMMA HeadIs ==
    ASSUME NEW s \in Seq(Steps), s # <<>>
    PROVE  Head(s) = s[1] /\ Head(s) \in Steps /\ Len(s) \in Nat \ {0} /\ 1 \in 1..Len(s)
  OBVIOUS

LEMMA RefusedKeeps ==
    ASSUME CloudInv, NEW l \in Launches, Refused(l) PROVE CloudInv'
  <1>0. at[l] = "prepare" /\ Running(l) /\ inst[l] = "none" /\ made[l] = 0 /\ own[l] = {}
    BY OfLaunch DEF Refused, Running, Self, Placed, Early, Cleared
  <1>1. l \in hurt
    <2>1. todo[l] \in Seq(Steps) /\ todo[l] # <<>>
      BY OfLaunch DEF Refused
    <2>2. todo[l][1].op = "make" /\ todo[l][1].on \in have /\ 1 \in 1..Len(todo[l])
      BY <2>1, HeadIs DEF Refused
    <2> QED  BY <2>2, OfLaunch DEF Self, Planned, Missed
  <1>2. Becomes(l, "failed", <<>>, own[l], inst[l], stop[l], made[l]) /\ "failed" \in Places
    BY OfLaunch DEF Refused, Goes, history, Becomes, Places
  <1>3. Grows(l) /\ have' = have /\ hurt' = hurt /\ kind' = kind /\ undeleted' = undeleted
    BY GrowsIs, CountersAre DEF Refused, history, counters
  <1>4. /\ at'[l] = "failed" /\ own'[l] = {} /\ inst'[l] = "none" /\ stop'[l] = stop[l]
        /\ made'[l] = 0
    BY <1>0, <1>2, BecomesIs DEF CloudInv
  <1>5. Placed(l)' /\ Counted(l)' /\ Cleared(l)' /\ Blamed(l)' /\ Over(l)' /\ Granted(l)'
    BY <1>0, <1>1, <1>3, <1>4, OfLaunch
    DEF Self, Placed, Counted, Cleared, Blamed, Over, Granted, Early, Grows
  <1> QED
    BY <1>0, <1>2, <1>3, <1>4, <1>5, OfLaunch, Advances

\* What the steps of a launch become is still a plan.
LEMMA PlannedIs ==
    ASSUME NEW l \in Launches, NEW s, todo'[l] = s, Apart(s), Ordered(have', s),
           kind' = "AWS" /\ at'[l] = "prepare" => Leads(have', s, Rights),
           l \notin hurt' => Missed(have', s)
    PROVE  Planned(l)'
  BY DEF Planned, Ordered, Apart, Leads, Missed, Met

LEMMA LookKeeps ==
    ASSUME CloudInv, NEW l \in Launches, LookFor(l) PROVE CloudInv'
  <1> DEFINE s == todo[l]
             p == IF Head(s).op = "look" THEN Plan(Head(s).on) ELSE <<>>
             q == p \o Tail(s)
  <1>0. /\ at[l] = "prepare" /\ Running(l) /\ inst[l] = "none" /\ made[l] = 0 /\ own[l] = {}
        /\ s \in Seq(Steps) /\ s # <<>>
    BY OfLaunch DEF LookFor, Running, Self, Placed, Early, Cleared
  <1>1. s[1] \in Steps /\ 1 \in 1..Len(s) /\ Head(s) = s[1] /\ s[1].op \in {"look", "read"}
    BY <1>0, HeadIs DEF LookFor
  <1>2. Apart(s) /\ Ordered(have, s) /\ (l \notin hurt => Missed(have, s))
        /\ (kind = "AWS" => Leads(have, s, Rights))
    BY <1>0, OfLaunch DEF Self, Planned
  <1>3. p \in Seq(Steps) /\ Replaces(p, s[1], have) /\ Missed(have, p)
    <2>1. CASE s[1].op = "read"
      <3>1. Promise(s[1]) = {}
        BY <2>1 DEF Promise, Look
      <3> QED  BY <1>1, <2>1, <3>1 DEF Replaces, Apart, Missed
    <2>2. CASE s[1].op = "look"
      <3>1. s[1].on \in Resources /\ s[1] = Look(s[1].on) /\ p = Plan(s[1].on)
        BY <1>1, <2>2, StepParts
      <3>2. \A x \in Needs(s[1]) : x \in have
        BY <1>1, <1>2 DEF Ordered, Met
      <3> QED  BY <3>1, <3>2, PlanReplaces, OfLaunch
    <2> QED  BY <1>1, <2>1, <2>2
  <1>4. todo' = [todo EXCEPT ![l] = q] /\ todo[l] = s
    <2>1. <<>> \o Tail(s) = Tail(s)
      BY <1>0
    <2>2. todo' = [todo EXCEPT ![l] = IF Head(s).op = "look" THEN Plan(Head(s).on) \o Tail(s)
                                                             ELSE Tail(s)]
      BY DEF LookFor
    <2> QED  BY <2>1, <2>2
  <1> HIDE DEF p, s
  <1>5. q \in Seq(Steps) /\ Apart(q) /\ Ordered(have, q)
        /\ (kind = "AWS" => Leads(have, q, Rights)) /\ (l \notin hurt => Missed(have, q))
    <2>1. Missed(have, s) => \A i \in 2..Len(s) : s[i].op = "make" => s[i].on \notin have
      BY <1>0 DEF Missed
    <2> QED  BY <1>0, <1>2, <1>3, <2>1, GoesOn
  <1> HIDE DEF q
  <1>6. Becomes(l, "prepare", q, own[l], inst[l], stop[l], made[l]) /\ "prepare" \in Places
    BY <1>0, <1>4, OfLaunch DEF LookFor, history, Becomes, Places
  <1>7. Grows(l) /\ have' = have /\ hurt' = hurt /\ kind' = kind /\ undeleted' = undeleted
        /\ at' = at /\ own' = own /\ inst' = inst /\ stop' = stop /\ made' = made /\ mute' = mute
    BY GrowsIs, CountersAre DEF LookFor, history, counters
  <1>8. Planned(l)'
    <2>1. todo'[l] = q
      BY <1>6, BecomesIs DEF CloudInv
    <2> QED  BY <1>5, <1>7, <2>1, PlannedIs
  <1>9. Self(l)'
    BY <1>7, <1>8, OfLaunch DEF Self, Placed, Counted, Cleared, Blamed, Over, Granted, Grows
  <1> QED
    BY <1>0, <1>5, <1>6, <1>7, <1>9, OfLaunch, Moved

LEMMA SupplyKeeps ==
    ASSUME CloudInv, NEW l \in Launches, NEW ok \in BOOLEAN, Supply(l, ok) PROVE CloudInv'
  <1> DEFINE s == todo[l]
             r == s[1].on
             q == Tail(s)
  <1>0. /\ at[l] = "prepare" /\ Running(l) /\ inst[l] = "none" /\ made[l] = 0 /\ own[l] = {}
        /\ s \in Seq(Steps) /\ s # <<>>
    BY OfLaunch DEF Supply, Running, Self, Placed, Early, Cleared
  <1>1. s[1] \in Steps /\ 1 \in 1..Len(s) /\ Head(s) = s[1] /\ s[1].op \in {"make", "put"}
        /\ have' = have \cup {r} /\ r \in Resources
    BY <1>0, HeadIs, StepParts DEF Supply
  <1>2. Apart(s) /\ Ordered(have, s) /\ (l \notin hurt => Missed(have, s))
        /\ (kind = "AWS" => Leads(have, s, Rights))
    BY <1>0, OfLaunch DEF Self, Planned
  <1>3. Promise(s[1]) = {r} /\ Duty(s[1]) = {r} /\ (r = "rule" => Needs(s[1]) = {"group"})
        /\ (r = "attached" => Needs(s[1]) = {"role", "policy", "profile"})
    BY <1>1 DEF Promise, Duty, Needs, Look
  <1>4. Replaces(<<>>, s[1], have') /\ Missed(have', <<>>) /\ <<>> \in Seq(Steps)
        /\ <<>> \o q = q
    BY <1>0, <1>1, <1>3 DEF Replaces, Apart, Missed, Met
  <1>5. \A x \in Needs(s[1]) : x \in have
    BY <1>1, <1>2 DEF Ordered, Met
  <1>6. Missed(have, s) => \A i \in 2..Len(s) : s[i].op = "make" => s[i].on \notin have'
    <2> SUFFICES ASSUME Missed(have, s), NEW i \in 2..Len(s), s[i].op = "make"
                 PROVE  s[i].on \notin have'
      OBVIOUS
    <2>1. i \in 1..Len(s) /\ i # 1 /\ s[i] \in Steps
      BY <1>0
    <2>2. Duty(s[i]) \cap Duty(s[1]) = {} /\ s[i].on \notin have
      BY <1>1, <1>2, <2>1 DEF Apart, Missed
    <2>3. s[i].on \in Duty(s[i])
      BY <2>1 DEF Duty, Promise, Look
    <2> QED  BY <1>1, <1>3, <2>2, <2>3
  <1> HIDE DEF s
  <1>7. q \in Seq(Steps) /\ Apart(q) /\ Ordered(have', q)
        /\ (kind = "AWS" => Leads(have', q, Rights)) /\ (l \notin hurt => Missed(have', q))
    <2>1. PICK h : h = have'
      OBVIOUS
    <2>2. have \subseteq h
      BY <1>1, <2>1
    <2>3. Replaces(<<>>, s[1], h) /\ Missed(h, <<>>)
      BY <1>4, <2>1
    <2>4. /\ <<>> \o q \in Seq(Steps) /\ Apart(<<>> \o q) /\ Ordered(h, <<>> \o q)
          /\ \A R : Leads(have, s, R) => Leads(h, <<>> \o q, R)
          /\ (\A i \in 2..Len(s) : s[i].op = "make" => s[i].on \notin h)
                 => Missed(h, <<>> \o q)
      BY <1>0, <1>2, <1>4, <2>2, <2>3, GoesOn
    <2> QED  BY <1>2, <1>4, <1>6, <2>1, <2>4
  <1>8. HaveOK' /\ have' \subseteq Resources
    BY <1>1, <1>3, <1>5, OfLaunch DEF HaveOK
  <1> HIDE DEF q
  <1>9. /\ Becomes(l, IF ok THEN "prepare" ELSE "failed", IF ok THEN q ELSE <<>>,
                   own[l], inst[l], stop[l], made[l])
        /\ {"prepare", "failed"} \subseteq Places
    <2>1. todo' = [todo EXCEPT ![l] = IF ok THEN q ELSE <<>>]
      BY DEF Supply, q, s
    <2> QED  BY <2>1, OfLaunch DEF Supply, Goes, Becomes, Places
  <1>10. /\ kind' = kind /\ own' = own /\ inst' = inst /\ stop' = stop /\ made' = made
         /\ mute' = mute /\ undeleted' = undeleted /\ hurt \subseteq hurt' /\ (~ ok => l \in hurt')
         /\ hurt' \subseteq Launches /\ blind' = blind
    BY CountersAre DEF Supply, HurtUnless
  <1>11. Grows(l)
    BY <1>1, <1>8, <1>10, CountersAre, FaultsIs DEF Supply, Grows
  <1>12. /\ at'[l] = IF ok THEN "prepare" ELSE "failed"
         /\ todo'[l] = IF ok THEN q ELSE <<>>
    BY <1>9, BecomesIs DEF CloudInv
  <1>13. Planned(l)'
    <2>1. CASE ok
      BY <1>7, <1>10, <1>12, <2>1, PlannedIs
    <2>2. CASE ~ ok
      BY <1>12, <2>2, NothingPlanned
    <2> QED  BY <2>1, <2>2
  <1>14. Self(l)'
    BY <1>0, <1>1, <1>10, <1>11, <1>12, <1>13, OfLaunch
    DEF Self, Placed, Counted, Cleared, Blamed, Over, Granted, Early, Grows
  <1>15. \A m \in Launches \ {l} : m \in hurt' \/ todo[m] = <<>>
    BY <1>0, <1>10, OfLaunch DEF CloudInv, Alone, Running
  <1>16. (IF ok THEN q ELSE <<>>) # <<>> => (IF ok THEN "prepare" ELSE "failed") = "prepare"
    OBVIOUS
  <1>17. (IF ok THEN q ELSE <<>>) \in Seq(Steps)
    BY <1>4, <1>7
  <1>18. (IF ok THEN "prepare" ELSE "failed") \in Places
    BY <1>9
  <1> QED
    BY <1>0, <1>9, <1>11, <1>14, <1>15, <1>16, <1>17, <1>18, OfLaunch, Moved

\* The plan a launch starts with.
LEMMA AwsPlan ==
    /\ AwsShared \in Seq(Steps) /\ Apart(AwsShared) /\ Missed(have, AwsShared)
    /\ Ordered(have, AwsShared) /\ Leads(have, AwsShared, Rights)
  <1> DEFINE s == AwsShared
  <1>1. /\ Len(s) = 6 /\ s[1] = Look("group") /\ s[2] = Look("key") /\ s[3] = Read("image")
        /\ s[4] = Look("role") /\ s[5] = Put("policy") /\ s[6] = Look("profile")
        /\ \A i \in 1..6 : i = 1 \/ i = 2 \/ i = 3 \/ i = 4 \/ i = 5 \/ i = 6
    BY DEF AwsShared
  <1>2. {"group", "key", "role", "policy", "profile"} \subseteq Resources /\ Read("image") \in Steps
    BY DEF Resources, Steps, Read
  <1>3. s \in Seq(Steps)
    BY <1>2, StepIs DEF AwsShared
  <1>4. /\ Duty(s[1]) = {"group", "rule"} /\ Duty(s[2]) = {"key"} /\ Duty(s[3]) = {}
        /\ Duty(s[4]) = {"role"} /\ Duty(s[5]) = {"policy"} /\ Duty(s[6]) = {"profile", "attached"}
        /\ Promise(s[4]) = {"role"} /\ Promise(s[5]) = {"policy"}
        /\ Promise(s[6]) = {"profile", "attached"}
    BY <1>1 DEF Duty, Promise, Look, Read, Put
  <1>5. /\ Needs(s[1]) = {} /\ Needs(s[2]) = {} /\ Needs(s[3]) = {} /\ Needs(s[4]) = {}
        /\ Needs(s[5]) = {} /\ Needs(s[6]) = {"role", "policy"}
    BY <1>1 DEF Needs, Look, Read, Put
  <1>6. \A i \in 1..6 : s[i].op # "make"
    BY <1>1 DEF Look, Read, Put
  <1> HIDE DEF s
  <1>7. Apart(s)
    BY <1>1, <1>4 DEF Apart
  <1>8. Ordered(have, s)
    <2>1. \A r \in Needs(s[6]) : Met(have, r, s, 6 - 1)
      BY <1>4, <1>5 DEF Met
    <2> QED  BY <1>1, <1>5, <2>1 DEF Ordered
  <1>9. Leads(have, s, Rights)
    BY <1>1, <1>4 DEF Leads, Met, Rights
  <1> QED  BY <1>1, <1>3, <1>6, <1>7, <1>8, <1>9 DEF Missed, s

LEMMA OtherPlans ==
    ASSUME NEW s \in {AzureShared, GcpShared, NebiusShared, LambdaShared, VastShared, <<>>}
    PROVE  s \in Seq(Steps) /\ Apart(s) /\ Missed(have, s) /\ Ordered(have, s)
  <1>1. {"resourceGroup", "nsg", "vnet", "firewall", "network", "subnet", "key"} \subseteq Resources
        /\ Read("capacity") \in Steps /\ Read("offer") \in Steps
    BY DEF Resources, Steps, Read
  <1>2. ASSUME NEW x \in {"nsg", "vnet", "firewall", "network", "subnet", "key"}
        PROVE  Duty(Look(x)) = {x} /\ Needs(Look(x)) = {} /\ Look(x).op # "make" /\ Look(x) \in Steps
    BY <1>1, StepIs DEF Duty, Promise, Needs, Look
  <1>3. /\ Duty(Put("resourceGroup")) = {"resourceGroup"} /\ Needs(Put("resourceGroup")) = {}
        /\ Put("resourceGroup").op # "make" /\ Put("resourceGroup") \in Steps
    BY <1>1, StepIs DEF Duty, Promise, Needs, Look, Put
  <1>4. ASSUME NEW x \in {"capacity", "offer"}
        PROVE  Duty(Read(x)) = {} /\ Needs(Read(x)) = {} /\ Read(x).op # "make"
    BY DEF Duty, Promise, Needs, Look, Read
  <1>5. CASE s = AzureShared
    <2>1. /\ s = <<Put("resourceGroup"), Look("nsg"), Look("vnet")>> /\ Len(s) = 3
          /\ s[1] = Put("resourceGroup") /\ s[2] = Look("nsg") /\ s[3] = Look("vnet")
          /\ \A i \in 1..3 : i = 1 \/ i = 2 \/ i = 3
      BY <1>5 DEF AzureShared
    <2>2. s \in Seq(Steps)
      BY <1>2, <1>3, <2>1
    <2> QED  BY <1>2, <1>3, <2>1, <2>2 DEF Apart, Missed, Ordered
  <1>6. ASSUME NEW x \in {"firewall"}, s = <<Look(x)>>
        PROVE  s \in Seq(Steps) /\ Apart(s) /\ Missed(have, s) /\ Ordered(have, s)
    <2>1. Len(s) = 1 /\ s[1] = Look(x) /\ \A i \in 1..1 : i = 1
      BY <1>6
    <2>2. s \in Seq(Steps)
      BY <1>2, <1>6
    <2> QED  BY <1>2, <2>1, <2>2 DEF Apart, Missed, Ordered
  <1>7. CASE s = <<Look("network"), Look("subnet")>>
    <2>1. Len(s) = 2 /\ s[1] = Look("network") /\ s[2] = Look("subnet") /\ \A i \in 1..2 : i = 1 \/ i = 2
      BY <1>7
    <2>2. s \in Seq(Steps)
      BY <1>2, <1>7
    <2> QED  BY <1>2, <2>1, <2>2 DEF Apart, Missed, Ordered
  <1>8. CASE s = <<Read("capacity"), Look("key")>>
    <2>1. Len(s) = 2 /\ s[1] = Read("capacity") /\ s[2] = Look("key") /\ \A i \in 1..2 : i = 1 \/ i = 2
      BY <1>8
    <2>2. s \in Seq(Steps)
      BY <1>1, <1>2, <1>8
    <2> QED  BY <1>2, <1>4, <2>1, <2>2 DEF Apart, Missed, Ordered
  <1>9. CASE s = <<Read("offer")>>
    <2>1. Len(s) = 1 /\ s[1] = Read("offer") /\ \A i \in 1..1 : i = 1
      BY <1>9
    <2>2. s \in Seq(Steps)
      BY <1>1, <1>9
    <2> QED  BY <1>4, <2>1, <2>2 DEF Apart, Missed, Ordered
  <1>10. CASE s = <<>>
    BY <1>10 DEF Apart, Missed, Ordered
  <1> QED
    BY <1>5, <1>6, <1>7, <1>8, <1>9, <1>10 DEF GcpShared, NebiusShared, LambdaShared, VastShared

LEMMA BeginKeeps ==
    ASSUME CloudInv, NEW l \in Launches, Begin(l) PROVE CloudInv'
  <1> DEFINE s == Shared
  <1>0. /\ at[l] = "new" /\ inst[l] = "none" /\ made[l] = 0 /\ own[l] = {}
        /\ UNCHANGED <<kind, have, tries, own, inst, mute, stop, undeleted, made, blind, counters>>
    BY OfLaunch DEF Begin, Self, Placed, Early, Cleared
  <1>1. /\ s \in Seq(Steps) /\ Apart(s) /\ Ordered(have, s) /\ Missed(have, s)
        /\ (kind = "AWS" => Leads(have, s, Rights))
    <2>1. CASE kind = "AWS"
      BY <2>1, AwsPlan DEF Shared
    <2>2. CASE kind # "AWS"
      <3>1. s \in {AzureShared, GcpShared, NebiusShared, LambdaShared, VastShared, <<>>}
        BY <2>2 DEF Shared
      <3> HIDE DEF s
      <3> QED  BY <2>2, <3>1, OtherPlans
    <2> QED  BY <2>1, <2>2
  <1>2. todo' = [todo EXCEPT ![l] = s] /\ at' = [at EXCEPT ![l] = "prepare"]
    BY DEF Begin, Goes
  <1> HIDE DEF s
  <1>3. Becomes(l, "prepare", s, own[l], inst[l], stop[l], made[l]) /\ "prepare" \in Places
    BY <1>0, <1>2, OfLaunch DEF Becomes, Places
  <1>4. hurt \subseteq hurt' /\ hurt' \subseteq Launches
    BY CountersAre DEF Begin
  <1>5. Grows(l) /\ have' = have
    BY <1>0, <1>4, GrowsIs, CountersAre DEF counters
  <1>6. at'[l] = "prepare" /\ todo'[l] = s
    BY <1>3, BecomesIs DEF CloudInv
  <1>7. Self(l)'
    <2>1. Planned(l)'
      BY <1>0, <1>1, <1>6, PlannedIs
    <2> QED
      BY <1>0, <1>4, <1>6, <2>1, OfLaunch DEF Self, Placed, Counted, Cleared, Blamed, Over, Granted, Early
  <1>8. Alone'
    <2>1. \A m \in Launches \ {l} : Running(m)' => Running(m)
      BY <1>3, BecomesIs DEF CloudInv, Running
    <2>2. \A m \in Launches \ {l} : Running(m) => m \in hurt' /\ l \in hurt'
      BY DEF Begin
    <2> QED  BY <1>4, <2>1, <2>2 DEF CloudInv, Alone
  <1>9. TypeOK'
    BY <1>1, <1>3, <1>5, OfLaunch, TypesStay DEF CloudInv
  <1> QED
    BY <1>3, <1>5, <1>7, <1>8, <1>9, OthersStay DEF CloudInv, Self

-----------------------------------------------------------------------------

LEMMA InitCloud == Init => CloudInv
  <1> SUFFICES ASSUME Init PROVE CloudInv
    OBVIOUS
  <1>1. TypeOK
    BY CloudAssumption DEF Init, TypeOK
  <1>2. Alone
    BY DEF Init, Alone, Running
  <1>3. ASSUME NEW l \in Launches PROVE Self(l)
    BY <1>3 DEF Init, Self, Placed, Counted, Cleared, Blamed, Over, Planned, Granted, Early, Apart,
                Ordered, Missed
  <1> QED  BY <1>1, <1>2, <1>3 DEF CloudInv, Self

LEMMA StepCloud == CloudInv /\ [Next]_vars => CloudInv'
  <1> SUFFICES ASSUME CloudInv, [Next]_vars PROVE CloudInv'
    OBVIOUS
  <1>1. CASE UNCHANGED vars
    <2>1. /\ UNCHANGED <<kind, have, at, todo, tries, own, inst, mute, stop, undeleted>>
          /\ UNCHANGED <<made, hurt, blind, faults, cuts>>
      BY <1>1 DEF vars, launchVars, history, counters
    <2>2. TypeOK' /\ Alone'
      BY <2>1 DEF CloudInv, TypeOK, Alone, Running
    <2>3. ASSUME NEW m \in Launches PROVE Self(m)'
      <3>1. Planned(m)'
        BY <2>1, PlannedStays DEF CloudInv
      <3> QED  BY <2>1, <3>1 DEF CloudInv, Self, Placed, Counted, Cleared, Blamed, Over, Granted
    <2> QED  BY <2>2, <2>3 DEF CloudInv, Self
  <1>2. ASSUME NEW l \in Launches, Launch(l) PROVE CloudInv'
    BY <1>2, LookKeeps, RefusedKeeps, UndercutKeeps, AgainKeeps, BreakKeeps, RaiseKeeps,
       SupplyKeeps, RaisesKeep, IpKeeps, NicKeeps, CreateKeeps, UndoNicKeeps, UndoIpKeeps DEF Launch
  <1> QED
    BY <1>1, <1>2, BeginKeeps, CutKeepsMachine, StopsKeep, ProvisionKeeps, FinishKeeps,
       EvictKeeps DEF Next

\* The invariant of all launches together: each one is in a place its machine, what
\* it made and whom it blames agree with, its plan will supply what it promises, and
\* a launch that shares the account with another is marked as disturbed.
THEOREM CloudInvHolds == Spec => []CloudInv
  BY InitCloud, StepCloud, PTL DEF Spec

\* TypeOK: every launch is where the code can be, holds steps on the team's
\* resources, and no ingress rule or attached role is there without the group, the
\* role, its policy and its profile.
THEOREM LaunchesKeepTypes == Spec => []TypeOK
  <1>1. CloudInv => TypeOK
    BY DEF CloudInv
  <1> QED  BY CloudInvHolds, <1>1, PTL

\* OneMachine: however many attempts a launch makes and whatever answers are lost, it
\* creates at most one machine (launch_cluster of every provider); only the SkyPilot
\* server is asked a second time, when its first answer was an error.
THEOREM OneMachineEach == Spec => []OneMachine
  <1>1. CloudInv => OneMachine
    BY DEF CloudInv, OneMachine, Counted
  <1> QED  BY CloudInvHolds, <1>1, PTL

\* EndsItself: a machine is never left idle because launches of the team were cut or
\* failed between the role, its policy and the profile (aws.py).
THEOREM MachinesEndThemselves == Spec => []EndsItself
  <1>1. CloudInv => EndsItself
    BY DEF CloudInv, EndsItself, Granted
  <1> QED  BY CloudInvHolds, <1>1, PTL

\* FailuresAreForgotten: a failed launch without a machine leaves no address or
\* interface unless a delete failed, and a launch alone in the account whose calls
\* answer is never refused for what earlier ones left.
THEOREM FailuresStayForgotten == Spec => []FailuresAreForgotten
  <1>1. CloudInv => FailuresAreForgotten
    BY DEF CloudInv, FailuresAreForgotten, FailureIsClean, LeftoversDoNotBlock, Cleared, Blamed
  <1> QED  BY CloudInvHolds, <1>1, PTL

\* StopIsFinal: no machine is up after stop_cluster reported success and could tell,
\* but where the SkyPilot server was asked for it twice.
THEOREM StopsStayFinal == Spec => []StopIsFinal
  <1>1. CloudInv => StopIsFinal
    BY DEF CloudInv, StopIsFinal, Over
  <1> QED  BY CloudInvHolds, <1>1, PTL

\* What the tables of a provider's states make of the four conditions of a
\* machine.
Told(k) ==
    /\ Shown(k, Alive) \subseteq {{"up"}, {"active"}}
    /\ Shown(k, Ending) \cup Shown(k, Off) \cup Shown(k, Broken)
          \subseteq Ended \cup {{"completed"}, {"failed"}, {"cancelled"}}

LEMMA ToldByTable ==
    ASSUME NEW k, NEW table, States(k) = table,
           \A n \in DOMAIN table : /\ n \in Alive => table[n] \in {"up", "active"}
                                   /\ n \in Ending \cup Off \cup Broken =>
                                        table[n] \in {"down", "stopped", "completed",
                                                     "failed", "cancelled"}
    PROVE  Told(k)
  BY DEF Told, Shown, Ended

LEMMA TablesTell ==
    ASSUME NEW k \in CloudKinds \cap Asked PROVE Told(k)
  <1>1. CASE k = "AWS"
    <2>1. States(k) = AwsStates
      BY <1>1 DEF States
    <2> QED  BY <2>1, ToldByTable DEF AwsStates, Alive, Ending, Off, Broken
  <1>2. CASE k = "AZURE"
    <2>1. States(k) = AzureStates
      BY <1>2 DEF States
    <2> QED  BY <2>1, ToldByTable DEF AzureStates, Alive, Ending, Off, Broken
  <1>3. CASE k = "GCP"
    <2>1. States(k) = GcpStates
      BY <1>3 DEF States
    <2> QED  BY <2>1, ToldByTable DEF GcpStates, Alive, Ending, Off, Broken
  <1>4. CASE k = "NEBIUS"
    <2>1. States(k) = NebiusStates
      BY <1>4 DEF States
    <2> QED  BY <2>1, ToldByTable DEF NebiusStates, Alive, Ending, Off, Broken
  <1>5. CASE k = "LAMBDA"
    <2>1. States(k) = LambdaStates
      BY <1>5 DEF States
    <2> QED  BY <2>1, ToldByTable DEF LambdaStates, Alive, Ending, Off, Broken
  <1>6. CASE k = "RUNPOD"
    <2>1. States(k) = RunpodStates
      BY <1>6 DEF States
    <2> QED  BY <2>1, ToldByTable DEF RunpodStates, Alive, Ending, Off, Broken
  <1>7. CASE k = "VASTAI"
    <2>1. States(k) = VastStates
      BY <1>7 DEF States
    <2> QED  BY <2>1, ToldByTable DEF VastStates, Alive, Ending, Off, Broken
  <1>8. CASE k = "DSTACK"
    <2>1. States(k) = DstackStates
      BY <1>8 DEF States
    <2> QED  BY <2>1, ToldByTable DEF DstackStates, Alive, Ending, Off, Broken
  <1> QED
    BY <1>1, <1>2, <1>3, <1>4, <1>5, <1>6, <1>7, <1>8 DEF CloudKinds, Asked, ClusterKinds

\* AnswersAsPolled: for every provider's own table of states, the status worker takes a
\* machine for ended exactly when it is.
THEOREM AnswersStayAsPolled == Spec => []AnswersAsPolled
  <1>1. TypeOK => AnswersAsPolled
    <2> SUFFICES ASSUME TypeOK, kind \in Asked, NEW l \in Launches
                 PROVE  LET over == Ended \cup {{"completed"}, {"failed"}, {"cancelled"}}
                            absent == {Missing, IfGone(kind)}
                        IN  IF inst[l] \in {"up", "idle"}
                            THEN /\ Says(l) \cap over = {}
                                 /\ kind \notin Swallows => Says(l) \cap absent = {}
                            ELSE Says(l) \subseteq over \cup absent
      BY DEF AnswersAsPolled
    <2>1. Told(kind) /\ inst[l] \in Machines
      BY TablesTell, CloudAssumption DEF TypeOK, Machines
    <2>2. CASE inst[l] \in {"up", "idle"}
      <3>1. Says(l) \subseteq {{"up"}, {"active"}} \cup IF kind \in Swallows THEN {{}} ELSE {}
        BY <2>1, <2>2 DEF Says, Told, Missing
      <3> QED  BY <2>2, <3>1 DEF Ended, Missing, IfGone, Unknown
    <2>3. CASE inst[l] \notin {"up", "idle"}
      BY <2>1, <2>3 DEF Says, Told, Machines
    <2> QED  BY <2>2, <2>3
  <1> QED  BY LaunchesKeepTypes, <1>1, PTL

-----------------------------------------------------------------------------
(* Tasks. *)

\* Request c sets its entry, and the rest of them keep theirs.
Sets(c, w) == work' = [work EXCEPT ![c] = w]

LEMMA WorkIsSet ==
    ASSUME TasksTypeOK, NEW c \in TaskCalls, NEW w, WorkOK(w), Sets(c, w)
    PROVE  /\ DOMAIN work' = TaskCalls /\ \A d \in TaskCalls : WorkOK(work'[d])
           /\ work'[c] = w /\ \A d \in TaskCalls \ {c} : work'[d] = work[d]
  BY DEF TasksTypeOK, Sets

LEMMA NoTaskCallOK == WorkOK(NoTaskCall)
  BY DEF WorkOK, NoTaskCall, Work, OnTask

\* A step whose next one needs no more than an id of a task, or what the request
\* knew already.
Plain == {"yaml", "text", "copy", "mount", "put", "save", "sync", "edit", "own"}

LEMMA PlainOK ==
    ASSUME NEW step \in Plain, NEW t \in Tasks, NEW r
    PROVE  WorkOK(Work(step, t, r))
  BY DEF WorkOK, Work, OnTask, Plain

LEMMA IndexOK ==
    ASSUME NEW step \in {"store", "restore", "update", "file", "tear", "fill"}, NEW t \in Tasks,
           NEW r \in Indexes
    PROVE  WorkOK(Work(step, t, r))
  BY DEF WorkOK, Work, OnTask

LEMMA EntryOK ==
    ASSUME NEW step \in {"clear", "pack", "describe"}, NEW t \in Tasks,
           NEW r \in Entries, r.dir \in Dirs
    PROVE  WorkOK(Work(step, t, r))
  BY DEF WorkOK, Work, OnTask

LEMMA ListOK ==
    ASSUME NEW t, NEW r \in Entries
    PROVE  WorkOK(Work("list", t, r))
  BY DEF WorkOK, Work, OnTask

LEMMA GalleryOK ==
    ASSUME NEW step \in {"open", "write"}, NEW t, NEW r \in SUBSET Entries
    PROVE  WorkOK(Work(step, t, r))
  BY DEF WorkOK, Work, OnTask

LEMMA UnpackOK ==
    ASSUME NEW t \in Tasks, NEW r \in Dirs
    PROVE  WorkOK(Work("unpack", t, r))
  BY DEF WorkOK, Work, OnTask

LEMMA AskSets ==
    ASSUME NEW c, NEW w, Ask(c, w)
    PROVE  /\ Sets(c, w) /\ asked' = asked + 1 /\ asked < MaxTaskCalls
           /\ work[c] = NoTaskCall
  BY DEF Ask, Sets

\* The step at which each action finds its request.
LEMMA StepsOf ==
    ASSUME NEW c
    PROVE  /\ OpenYaml(c) => work[c].step \in {"yaml", "put"}
           /\ WriteYaml(c) => work[c].step \in {"text"}
           /\ CopyZip(c) => work[c].step \in {"copy"}
           /\ Mount(c) => work[c].step \in {"mount"}
           /\ PutYaml(c) => work[c].step \in {"save"}
           /\ ReadIndex(c) => work[c].step \in {"sync", "edit"}
           /\ StoreIndex(c) => work[c].step \in {"store", "restore"}
           /\ StoreUpdate(c) => work[c].step \in {"update"}
           /\ PutFiles(c) => work[c].step \in {"file"}
           /\ ClearDir(c) => work[c].step \in {"clear"}
           /\ Pack(c) => work[c].step \in {"pack"}
           /\ Describe(c) => work[c].step \in {"describe"}
           /\ ReadGallery(c) => work[c].step \in {"list"}
           /\ OpenGallery(c) => work[c].step \in {"open"}
           /\ WriteGallery(c) => work[c].step \in {"write"}
           /\ Unpack(c) => work[c].step \in {"unpack"}
           /\ ReadCopied(c) => work[c].step \in {"own"}
           /\ TearIndex(c) => work[c].step \in {"tear"}
           /\ OwnIndex(c) => work[c].step \in {"fill"}
           /\ CreateTask(c) \/ EditTask(c) \/ UpdateTask(c) \/ UploadFiles(c) \/ ExportTask(c)
              \/ AddEntry(c) \/ DeleteEntry(c) \/ ImportTask(c) => work[c].step = "none"
  <1>1. OpenYaml(c) => work[c].step \in {"yaml", "put"}
    BY DEF OpenYaml, Does
  <1>2. WriteYaml(c) => work[c].step \in {"text"}
    BY DEF WriteYaml, Does
  <1>3. CopyZip(c) => work[c].step \in {"copy"}
    BY DEF CopyZip, Does
  <1>4. Mount(c) => work[c].step \in {"mount"}
    BY DEF Mount, Does
  <1>5. PutYaml(c) => work[c].step \in {"save"}
    BY DEF PutYaml, Does
  <1>6. ReadIndex(c) => work[c].step \in {"sync", "edit"}
    BY DEF ReadIndex, Does
  <1>7. StoreIndex(c) => work[c].step \in {"store", "restore"}
    BY DEF StoreIndex, StoreWith, Does
  <1>8. StoreUpdate(c) => work[c].step \in {"update"}
    BY DEF StoreUpdate, Does
  <1>9. PutFiles(c) => work[c].step \in {"file"}
    BY DEF PutFiles, Does
  <1>10. ClearDir(c) => work[c].step \in {"clear"}
    BY DEF ClearDir, Does
  <1>11. Pack(c) => work[c].step \in {"pack"}
    BY DEF Pack, Does
  <1>12. Describe(c) => work[c].step \in {"describe"}
    BY DEF Describe, Does
  <1>13. ReadGallery(c) => work[c].step \in {"list"}
    BY DEF ReadGallery, Does
  <1>14. OpenGallery(c) => work[c].step \in {"open"}
    BY DEF OpenGallery, Does
  <1>15. WriteGallery(c) => work[c].step \in {"write"}
    BY DEF WriteGallery, Does
  <1>16. Unpack(c) => work[c].step \in {"unpack"}
    BY DEF Unpack, Does
  <1>17. ReadCopied(c) => work[c].step \in {"own"}
    BY DEF ReadCopied, Does
  <1>18. TearIndex(c) => work[c].step \in {"tear"}
    BY DEF TearIndex, Does
  <1>19. OwnIndex(c) => work[c].step \in {"fill"}
    BY DEF OwnIndex, Does
  <1>20. ASSUME \/ CreateTask(c) \/ EditTask(c) \/ UpdateTask(c) \/ UploadFiles(c)
                \/ ExportTask(c) \/ AddEntry(c) \/ DeleteEntry(c) \/ ImportTask(c)
         PROVE  work[c].step = "none"
    <2>1. work[c] = NoTaskCall
      BY <1>20 DEF CreateTask, EditTask, UpdateTask, UploadFiles, ExportTask, AddEntry, DeleteEntry,
                  ImportTask, Ask
    <2> QED  BY <2>1 DEF NoTaskCall, Work
  <1> QED  BY <1>1, <1>2, <1>3, <1>4, <1>5, <1>6, <1>7, <1>8, <1>9, <1>10,
           <1>11, <1>12, <1>13, <1>14, <1>15, <1>16, <1>17, <1>18, <1>19, <1>20

\* Where it sends it.
LEMMA NextOf ==
    ASSUME NEW c
    PROVE  /\ OpenYaml(c) => \E step \in {"text", "save"} : Then(c, step)
           /\ WriteYaml(c) => Answer(c)
           /\ CopyZip(c) => Then(c, "mount")
           /\ Mount(c) => Answer(c)
           /\ PutYaml(c) => Answer(c) \/ Then(c, "sync")
           /\ ReadIndex(c) => Answer(c) \/ \E step \in {"store", "restore"} : \E r : Knows(c, step, r)
           /\ StoreIndex(c) => Answer(c) \/ Then(c, "copy")
           /\ StoreUpdate(c) => Answer(c)
           /\ PutFiles(c) => Answer(c) \/ Then(c, "mount")
           /\ ClearDir(c) => Then(c, "pack") \/ \E r : Knows(c, "list", r)
           /\ Pack(c) => Then(c, "describe")
           /\ Describe(c) => Then(c, "list")
           /\ Unpack(c) => Then(c, "own")
           /\ ReadCopied(c) => Answer(c) \/ \E r : Knows(c, "tear", r)
           /\ TearIndex(c) => Then(c, "fill")
           /\ OwnIndex(c) => Answer(c)
  <1>1. OpenYaml(c) => \E step \in {"text", "save"} : Then(c, step)
    BY DEF OpenYaml
  <1>2. WriteYaml(c) => Answer(c)
    BY DEF WriteYaml
  <1>3. CopyZip(c) => Then(c, "mount")
    BY DEF CopyZip
  <1>4. Mount(c) => Answer(c)
    BY DEF Mount
  <1>5. PutYaml(c) => Answer(c) \/ Then(c, "sync")
    BY DEF PutYaml
  <1>6. ReadIndex(c) => Answer(c) \/ \E step \in {"store", "restore"} : \E r : Knows(c, step, r)
    BY DEF ReadIndex
  <1>7. StoreIndex(c) => Answer(c) \/ Then(c, "copy")
    BY DEF StoreIndex, StoreWith
  <1>8. StoreUpdate(c) => Answer(c)
    BY DEF StoreUpdate
  <1>9. PutFiles(c) => Answer(c) \/ Then(c, "mount")
    BY DEF PutFiles
  <1>10. ClearDir(c) => Then(c, "pack") \/ \E r : Knows(c, "list", r)
    BY DEF ClearDir
  <1>11. Pack(c) => Then(c, "describe")
    BY DEF Pack
  <1>12. Describe(c) => Then(c, "list")
    BY DEF Describe
  <1>13. Unpack(c) => Then(c, "own")
    BY DEF Unpack
  <1>14. ReadCopied(c) => Answer(c) \/ \E r : Knows(c, "tear", r)
    BY DEF ReadCopied
  <1>15. TearIndex(c) => Then(c, "fill")
    BY DEF TearIndex
  <1>16. OwnIndex(c) => Answer(c)
    BY DEF OwnIndex
  <1> QED  BY <1>1, <1>2, <1>3, <1>4, <1>5, <1>6, <1>7, <1>8, <1>9, <1>10,
           <1>11, <1>12, <1>13, <1>14, <1>15, <1>16

-----------------------------------------------------------------------------
(* Types. *)

LEMMA IndexIs ==
    ASSUME NEW t \in Tasks \cup {NoId}, NEW title \in Titles, NEW m \in Mounts
    PROVE  Index(t, title, m) \in Indexes
  BY DEF Index, Indexes

LEMMA NewIndexIs ==
    ASSUME NEW t \in Tasks, NEW title \in Titles
    PROVE  NewIndex(t, title) \in Indexes
  BY IndexIs DEF NewIndex, Mounts

LEMMA DirectoryIs ==
    ASSUME NEW i \in Indexes \cup {NoIndex}, NEW y \in Yamls, NEW x \in BOOLEAN
    PROVE  Directory(i, y, x) \in Directories
  BY DEF Directory, Directories

LEMMA EntryIs ==
    ASSUME NEW t \in Tasks \cup Added, NEW title \in Titles,
           NEW d \in Dirs \cup {NoDir, NoSource}
    PROVE  Entry(t, title, d) \in Entries
  BY DEF Entry, Entries

\* A write to the index of a task.
LEMMA StoresTypes ==
    ASSUME index \in [Tasks -> Indexes \cup {NoIndex}], NEW t \in Tasks, NEW i,
           Exists(t) => i \in Indexes, Stores(t, i)
    PROVE  index' \in [Tasks -> Indexes \cup {NoIndex}]
  BY DEF Stores

LEMMA IndexParts ==
    ASSUME TasksTypeOK, NEW t \in Tasks, Exists(t)
    PROVE  /\ index[t] \in Indexes /\ index[t].id \in Tasks \cup {NoId}
           /\ index[t].title \in Titles /\ index[t].mounts \in Mounts
  BY DEF TasksTypeOK, Exists, Indexes

LEMMA InitTypes == TasksInit => TasksTypeOK
  <1> SUFFICES ASSUME TasksInit PROVE TasksTypeOK
    OBVIOUS
  <1>1. PICK old \in {{}} \cup {{t} : t \in Tasks}, title \in Titles :
            /\ index = [t \in Tasks |-> IF t \in old THEN NewIndex(t, title) ELSE NoIndex]
            /\ yaml = [t \in Tasks |-> IF t \in old THEN "good" ELSE "none"]
            /\ known = old
            /\ dir = [d \in Dirs |->
                   IF d[1] \in old /\ d[2] = title
                   THEN Directory(NewIndex(d[1], title), "good", FALSE)
                   ELSE NoDir]
            /\ gallery = [torn |-> FALSE, list |-> {Entry(t, title, <<t, title>>) : t \in old}]
    BY DEF TasksInit
  <1>2. old \subseteq Tasks
    OBVIOUS
  <1>3. \A t \in Tasks : NewIndex(t, title) \in Indexes
    BY NewIndexIs
  <1>4. index \in [Tasks -> Indexes \cup {NoIndex}]
    BY <1>1, <1>3
  <1>5. dir \in [Dirs -> Directories \cup {NoDir}]
    <2>1. \A i \in Indexes : Directory(i, "good", FALSE) \in Directories
      BY DirectoryIs DEF Yamls
    <2> QED  BY <1>1, <1>2, <1>3, <2>1
  <1>6. gallery \in [torn : BOOLEAN, list : SUBSET Entries]
    <2>1. \A t \in old : Entry(t, title, <<t, title>>) \in Entries
      BY <1>2 DEF Entry, Entries, Dirs
    <2> QED  BY <1>1, <2>1
  <1>7. DOMAIN work = TaskCalls /\ \A c \in TaskCalls : WorkOK(work[c])
    BY NoTaskCallOK DEF TasksInit
  <1>8. yaml \in [Tasks -> Yamls] /\ known \subseteq Tasks \cup Added
    BY <1>1, <1>2 DEF Yamls
  <1>9. /\ extra = {} /\ asked = 0 /\ loose = {} /\ foreign = {} /\ refused = {}
        /\ halfway = {} /\ spoilt = {}
    BY DEF TasksInit
  <1> QED  BY <1>4, <1>5, <1>6, <1>7, <1>8, <1>9, TasksAssumption DEF TasksTypeOK

\* What is not in the request's own entry keeps its type.
Typed ==
    /\ index \in [Tasks -> Indexes \cup {NoIndex}]
    /\ yaml \in [Tasks -> Yamls] /\ extra \subseteq Tasks
    /\ dir \in [Dirs -> Directories \cup {NoDir}]
    /\ gallery \in [torn : BOOLEAN, list : SUBSET Entries]
    /\ loose \subseteq Tasks /\ foreign \subseteq Tasks /\ refused \subseteq Tasks
    /\ halfway \subseteq Dirs /\ spoilt \subseteq Dirs
    /\ known \subseteq Tasks \cup Added /\ asked \in 0..MaxTaskCalls

LEMMA TypesFollow ==
    ASSUME TasksTypeOK, Typed', NEW c \in TaskCalls, NEW w, WorkOK(w), Sets(c, w)
    PROVE  TasksTypeOK'
  <1>1. DOMAIN work' = TaskCalls /\ \A d \in TaskCalls : WorkOK(work'[d])
    BY WorkIsSet
  <1> QED  BY <1>1 DEF TasksTypeOK, Typed, WorkOK

LEMMA AskKeepsTypes ==
    ASSUME TasksTypeOK, asked < MaxTaskCalls, asked' = asked + 1
    PROVE  asked' \in 0..MaxTaskCalls
  BY TasksAssumption DEF TasksTypeOK

LEMMA CreateTypes ==
    ASSUME TasksTypeOK, NEW c \in TaskCalls,
           CreateTask(c) \/ EditTask(c) \/ UpdateTask(c) \/ UploadFiles(c)
    PROVE  TasksTypeOK'
  <1>1. CASE CreateTask(c)
    <2>1. PICK t \in Tasks, title \in Titles :
              \/ \E step \in {"yaml", "copy", "file"} :
                    /\ AddTask(t, title, "no")
                    /\ Ask(c, Work(step, t, NewIndex(t, title)))
              \/ \E m \in Mounts : AddTask(t, title, m) /\ Ask(c, NoTaskCall)
      BY <1>1 DEF CreateTask
    <2>2. NewIndex(t, title) \in Indexes
      BY NewIndexIs
    <2>3. Typed'
      <3>1. asked' \in 0..MaxTaskCalls
        BY <2>1, AskKeepsTypes DEF Ask
      <3>2. PICK m \in Mounts : AddTask(t, title, m)
        BY <2>1 DEF Mounts
      <3>3. Index(t, title, m) \in Indexes
        BY IndexIs
      <3> QED  BY <1>1, <3>1, <3>2, <3>3 DEF CreateTask, AddTask, TasksTypeOK, Typed
    <2>4. CASE Ask(c, NoTaskCall)
      BY <2>3, <2>4, AskSets, NoTaskCallOK, TypesFollow
    <2>5. ASSUME NEW step \in {"yaml", "copy", "file"}, Ask(c, Work(step, t, NewIndex(t, title)))
          PROVE  TasksTypeOK'
      <3>1. WorkOK(Work(step, t, NewIndex(t, title)))
        BY <2>2, PlainOK, IndexOK DEF Plain
      <3> QED  BY <2>3, <2>5, <3>1, AskSets, TypesFollow
    <2> QED  BY <2>1, <2>4, <2>5
  <1>2. CASE EditTask(c)
    <2>1. PICK t \in Tasks, step \in {"put", "edit"} : Ask(c, Work(step, t, NoIndex))
      BY <1>2 DEF EditTask
    <2>2. Typed'
      BY <1>2, <2>1, AskKeepsTypes DEF EditTask, Ask, TasksTypeOK, Typed, taskDirs
    <2>3. WorkOK(Work(step, t, NoIndex))
      BY PlainOK DEF Plain
    <2> QED  BY <2>1, <2>2, <2>3, AskSets, TypesFollow
  <1>3. CASE UpdateTask(c) \/ UploadFiles(c)
    <2>1. PICK t \in Tasks, step \in {"update", "file"} :
              Exists(t) /\ Ask(c, Work(step, t, index[t]))
      BY <1>3 DEF UpdateTask, UploadFiles
    <2>2. Typed'
      BY <1>3, <2>1, AskKeepsTypes
         DEF UpdateTask, UploadFiles, Ask, TasksTypeOK, Typed, taskDirs
    <2>3. index[t] \in Indexes
      BY <2>1 DEF Exists, TasksTypeOK
    <2>4. WorkOK(Work(step, t, index[t]))
      BY <2>3, IndexOK
    <2> QED  BY <2>1, <2>2, <2>4, AskSets, TypesFollow
  <1> QED  BY <1>1, <1>2, <1>3

LEMMA AnswerSets ==
    ASSUME NEW c, Answer(c) PROVE Sets(c, NoTaskCall)
  BY DEF Answer, Sets

LEMMA ThenSets ==
    ASSUME NEW c, NEW step, Then(c, step)
    PROVE  Sets(c, Work(step, work[c].on, work[c].read))
  BY DEF Then, Sets

LEMMA KnowsSets ==
    ASSUME NEW c, NEW step, NEW r, Knows(c, step, r)
    PROVE  Sets(c, Work(step, work[c].on, r))
  BY DEF Knows, Sets

\* A request at a step on a task is about a task.
LEMMA AtTask ==
    ASSUME TasksTypeOK, NEW c \in TaskCalls, NEW step \in OnTask, Does(c, step)
    PROVE  work[c].on \in Tasks
  BY DEF TasksTypeOK, WorkOK, Does

LEMMA WriteTypes ==
    ASSUME TasksTypeOK, NEW c \in TaskCalls,
           \/ OpenYaml(c) \/ WriteYaml(c) \/ CopyZip(c) \/ Mount(c) \/ PutYaml(c)
           \/ ReadIndex(c) \/ StoreUpdate(c) \/ PutFiles(c) \/ ReadCopied(c)
           \/ TearIndex(c) \/ OwnIndex(c)
    PROVE  TasksTypeOK'
  <1> DEFINE t == work[c].on
  <1>1. t \in Tasks
    BY AtTask DEF OpenYaml, WriteYaml, CopyZip, Mount, PutYaml, ReadIndex, StoreUpdate, PutFiles,
                  ReadCopied, TearIndex, OwnIndex, OnTask
  <1>2. TearIndex(c) \/ OwnIndex(c) => work[c].read \in Indexes
    BY DEF TearIndex, OwnIndex, TasksTypeOK, WorkOK, Does
  <1>3. \E w : WorkOK(w) /\ Sets(c, w)
    <2>1. CASE Answer(c)
      BY <2>1, AnswerSets, NoTaskCallOK
    <2>2. CASE Then(c, "mount") \/ Then(c, "sync") \/ Then(c, "text") \/ Then(c, "save")
      BY <1>1, <2>2, ThenSets, PlainOK DEF Plain
    <2>3. CASE Exists(t) /\ \E step \in {"store", "restore", "tear"} : Knows(c, step, index[t])
      <3>1. index[t] \in Indexes
        BY <1>1, <2>3 DEF Exists, TasksTypeOK
      <3> QED  BY <1>1, <2>3, <3>1, KnowsSets, IndexOK
    <2>4. CASE TearIndex(c)
      BY <1>1, <1>2, <2>4, ThenSets, IndexOK DEF TearIndex
    <2> QED  BY <2>1, <2>2, <2>3, <2>4
             DEF OpenYaml, WriteYaml, CopyZip, Mount, PutYaml, ReadIndex, StoreUpdate, PutFiles,
                 ReadCopied, OwnIndex
  <1>4. Typed'
    <2>1. CASE OpenYaml(c) \/ WriteYaml(c) \/ PutYaml(c)
      <3>1. yaml' \in [Tasks -> Yamls]
        BY <1>1, <2>1 DEF OpenYaml, WriteYaml, PutYaml, HasYaml, TasksTypeOK, Yamls
      <3> QED  BY <1>1, <2>1, <3>1 DEF OpenYaml, WriteYaml, PutYaml, TasksTypeOK, Typed
    <2>2. CASE ReadIndex(c) \/ PutFiles(c) \/ ReadCopied(c)
      BY <1>1, <2>2 DEF ReadIndex, PutFiles, ReadCopied, TasksTypeOK, Typed, taskDirs
    <2>3. CASE CopyZip(c)
      <3>1. yaml' \in [Tasks -> Yamls]
        BY <1>1, <2>3 DEF CopyZip, HasYaml, TasksTypeOK, Yamls
      <3>2. index' \in [Tasks -> Indexes \cup {NoIndex}]
        BY <1>1, <2>3, TasksAssumption DEF CopyZip, TasksTypeOK
      <3> QED  BY <1>1, <2>3, <3>1, <3>2 DEF CopyZip, TasksTypeOK, Typed
    <2>4. CASE Mount(c)
      <3>1. index' \in [Tasks -> Indexes \cup {NoIndex}]
        BY <1>1, <2>4, IndexParts, IndexIs, StoresTypes DEF Mount, TasksTypeOK, Mounts
      <3> QED  BY <1>1, <2>4, <3>1 DEF Mount, TasksTypeOK, Typed
    <2>5. CASE TearIndex(c)
      <3>1. index' \in [Tasks -> Indexes \cup {NoIndex}]
        BY <1>1, <2>5, IndexIs, StoresTypes DEF TearIndex, TasksTypeOK, Mounts
      <3> QED  BY <1>1, <2>5, <3>1 DEF TearIndex, TasksTypeOK, Typed, Loses
    <2>6. CASE OwnIndex(c)
      <3>1. work[c].read.title \in Titles /\ work[c].read.mounts \in Mounts
        BY <1>2, <2>6 DEF Indexes
      <3>2. index' \in [Tasks -> Indexes \cup {NoIndex}]
        BY <1>1, <2>6, <3>1, IndexIs, StoresTypes DEF OwnIndex, TasksTypeOK
      <3> QED  BY <1>1, <2>6, <3>2 DEF OwnIndex, TasksTypeOK, Typed, Loses
    <2>7. CASE StoreUpdate(c)
      <3>1. PICK title \in Titles, m \in Mounts :
                Stores(t, Index(index[t].id, title, m)) /\ Loses(t, m)
        BY <2>7 DEF StoreUpdate
      <3>2. index' \in [Tasks -> Indexes \cup {NoIndex}]
        BY <1>1, <3>1, IndexParts, IndexIs, StoresTypes DEF TasksTypeOK
      <3> QED  BY <1>1, <2>7, <3>1, <3>2 DEF StoreUpdate, TasksTypeOK, Typed, Loses
    <2> QED  BY <2>1, <2>2, <2>3, <2>4, <2>5, <2>6, <2>7
  <1> QED  BY <1>3, <1>4, TypesFollow

LEMMA StoreTypes ==
    ASSUME TasksTypeOK, NEW c \in TaskCalls, StoreIndex(c)
    PROVE  TasksTypeOK'
  <1> DEFINE t == work[c].on
  <1>1. t \in Tasks /\ work[c].read \in Indexes
    BY AtTask DEF StoreIndex, StoreWith, OnTask, TasksTypeOK, WorkOK, Does
  <1>2. \E w : WorkOK(w) /\ Sets(c, w)
    BY <1>1, AnswerSets, NoTaskCallOK, ThenSets, PlainOK DEF StoreIndex, StoreWith, Plain
  <1>3. index' \in [Tasks -> Indexes \cup {NoIndex}]
    <2>1. work[c].read.id \in Tasks \cup {NoId} /\ work[c].read.mounts \in Mounts
      BY <1>1 DEF Indexes
    <2> QED  BY <1>1, <2>1, IndexIs, StoresTypes DEF StoreIndex, StoreWith, TasksTypeOK
  <1>4. Typed'
    BY <1>1, <1>3 DEF StoreIndex, StoreWith, Loses, TasksTypeOK, Typed
  <1> QED  BY <1>2, <1>4, TypesFollow

LEMMA DeleteTypes ==
    ASSUME TasksTypeOK, NEW S \in SUBSET Tasks,
           DeleteTasks(S) \/ \E t \in Tasks : DeleteFiles(t)
    PROVE  TasksTypeOK'
  <1>1. index' \in [Tasks -> Indexes \cup {NoIndex}]
    BY DEF DeleteTasks, DeleteFiles, TasksTypeOK
  <1>2. yaml' \in [Tasks -> Yamls]
    BY DEF DeleteTasks, DeleteFiles, TasksTypeOK, Yamls
  <1> QED  BY <1>1, <1>2 DEF DeleteTasks, DeleteFiles, TasksTypeOK, WorkOK

\* What an export names: its task, its entry and a directory of the gallery.
LEMMA AtExport ==
    ASSUME TasksTypeOK, NEW c \in TaskCalls, Does(c, "clear") \/ Does(c, "pack") \/ Does(c, "describe")
    PROVE  work[c].on \in Tasks /\ work[c].read \in Entries /\ work[c].read.dir \in Dirs
  BY DEF TasksTypeOK, WorkOK, Does, OnTask

LEMMA ListedTypes == TasksTypeOK => Listed \subseteq Entries
  BY DEF TasksTypeOK, Listed

\* What Describe leaves.
Described(d) == IF d = NoDir THEN WithYaml
                ELSE Directory(d.index, IF d.yaml = "none" THEN "good" ELSE d.yaml, d.extra)

LEMMA DescribedIs ==
    ASSUME NEW d \in Directories \cup {NoDir}
    PROVE  /\ Described(d) \in Directories
           /\ Described(d).yaml = "bad" \/ Described(d).yaml = "good"
           /\ Described(d).yaml = "bad" => d # NoDir /\ d.yaml = "bad"
           /\ Described(d).index = NoIndex /\ Described(d).extra =>
                 d # NoDir /\ d.index = NoIndex /\ d.extra
  <1>1. CASE d = NoDir
    <2>1. Described(d) = WithYaml
      BY <1>1 DEF Described
    <2>2. WithYaml.yaml = "good" /\ ~ WithYaml.extra
      BY DEF WithYaml, Directory
    <2>3. WithYaml \in Directories
      BY DirectoryIs DEF WithYaml, Yamls
    <2> QED  BY <2>1, <2>2, <2>3
  <1>2. CASE d # NoDir
    <2>1. d.index \in Indexes \cup {NoIndex} /\ d.yaml \in Yamls /\ d.extra \in BOOLEAN
      BY <1>2 DEF Directories
    <2>2. PICK y \in {"good", "bad"} :
              Described(d) = Directory(d.index, y, d.extra) /\ (y = "bad" => d.yaml = "bad")
      BY <1>2, <2>1 DEF Described, Yamls
    <2>3. Described(d) \in Directories
      <3>1. y \in Yamls
        BY DEF Yamls
      <3> QED  BY <2>1, <2>2, <3>1, DirectoryIs
    <2>4. Described(d).index = d.index /\ Described(d).extra = d.extra /\ Described(d).yaml = y
      BY <2>2 DEF Directory
    <2> QED  BY <1>2, <2>2, <2>3, <2>4
  <1> QED  BY <1>1, <1>2

LEMMA ExportTypes ==
    ASSUME TasksTypeOK, NEW c \in TaskCalls,
           ExportTask(c) \/ ClearDir(c) \/ Pack(c) \/ Describe(c) \/ AddEntry(c)
    PROVE  TasksTypeOK'
  <1>1. CASE ExportTask(c)
    <2>1. PICK t \in Tasks :
              /\ Exists(t)
              /\ LET id == IF index[t].id = NoId THEN t ELSE index[t].id
                 IN  Ask(c, Work("clear", t, Entry(id, index[t].title, <<t, index[t].title>>)))
      BY <1>1 DEF ExportTask
    <2>0. PICK id : id = IF index[t].id = NoId THEN t ELSE index[t].id
      OBVIOUS
    <2> DEFINE e == Entry(id, index[t].title, <<t, index[t].title>>)
    <2>2. e \in Entries /\ e.dir \in Dirs
      <3>1. id \in Tasks
        BY <2>0, <2>1, IndexParts
      <3> QED  BY <2>1, <3>1, IndexParts DEF Entry, Entries, Dirs
    <2>3. Typed'
      <3>1. asked' \in 0..MaxTaskCalls
        BY <2>1, AskKeepsTypes DEF Ask
      <3> QED  BY <1>1, <3>1 DEF ExportTask, TasksTypeOK, Typed, taskDirs
    <2>4. Ask(c, Work("clear", t, e))
      BY <2>0, <2>1
    <2> HIDE DEF e
    <2>5. WorkOK(Work("clear", t, e))
      BY <2>2, EntryOK
    <2> QED  BY <2>3, <2>4, <2>5, AskSets, TypesFollow
  <1>2. CASE ClearDir(c)
    <2>1. work[c].on \in Tasks /\ work[c].read \in Entries /\ work[c].read.dir \in Dirs
      BY <1>2, AtExport DEF ClearDir
    <2>2. CASE Exists(work[c].on)
      <3>1. WorkOK(Work("pack", work[c].on, work[c].read))
        BY <2>1, EntryOK
      <3>2. dir' \in [Dirs -> Directories \cup {NoDir}]
        BY <1>2, <2>1, <2>2 DEF ClearDir, TasksTypeOK
      <3>3. Typed'
        BY <1>2, <3>2 DEF ClearDir, TasksTypeOK, Typed, taskDirs
      <3> QED  BY <1>2, <2>2, <3>1, <3>3, ThenSets, TypesFollow DEF ClearDir
    <2>3. CASE ~ Exists(work[c].on)
      <3>0. PICK none \in {NoDir, NoSource} :
                Knows(c, "list", Entry(work[c].read.id, work[c].read.title, none))
        BY <1>2, <2>3 DEF ClearDir
      <3> DEFINE e == Entry(work[c].read.id, work[c].read.title, none)
      <3>1. e \in Entries
        <4>1. work[c].read.id \in Tasks \cup Added /\ work[c].read.title \in Titles
          BY <2>1 DEF Entries
        <4> QED  BY <4>1, EntryIs
      <3>2. Knows(c, "list", e)
        BY <3>0
      <3>3. Typed'
        BY <1>2, <2>3 DEF ClearDir, TasksTypeOK, Typed, taskDirs
      <3> HIDE DEF e
      <3>4. WorkOK(Work("list", work[c].on, e))
        BY <3>1, ListOK
      <3> QED  BY <3>2, <3>3, <3>4, KnowsSets, TypesFollow
    <2> QED  BY <2>2, <2>3
  <1>3. CASE Pack(c)
    <2>1. work[c].on \in Tasks /\ work[c].read \in Entries /\ work[c].read.dir \in Dirs
      BY <1>3, AtExport DEF Pack
    <2>2. Copy(work[c].on) \in Directories
      <3>1. index[work[c].on] \in Indexes
        BY <1>3, <2>1, IndexParts DEF Pack
      <3>2. yaml[work[c].on] \in Yamls
        BY <2>1 DEF TasksTypeOK
      <3> QED  BY <3>1, <3>2 DEF Copy, Directory, Directories
    <2>3. Typed'
      BY <1>3, <2>1, <2>2 DEF Pack, TasksTypeOK, Typed, taskDirs
    <2>4. WorkOK(Work("describe", work[c].on, work[c].read))
      BY <2>1, EntryOK
    <2> QED  BY <1>3, <2>3, <2>4, ThenSets, TypesFollow DEF Pack
  <1>4. CASE Describe(c)
    <2>1. work[c].on \in Tasks /\ work[c].read \in Entries /\ work[c].read.dir \in Dirs
      BY <1>4, AtExport DEF Describe
    <2> DEFINE d == work[c].read.dir
               new == Described(dir[d])
    <2>2. new \in Directories
      BY <2>1, DescribedIs DEF TasksTypeOK
    <2>3. dir' = [dir EXCEPT ![d] = new]
      BY <1>4 DEF Describe, Described
    <2> HIDE DEF new
    <2>4. Typed'
      BY <1>4, <2>1, <2>2, <2>3 DEF Describe, TasksTypeOK, Typed, taskDirs
    <2>5. WorkOK(Work("list", work[c].on, work[c].read))
      BY <2>1, ListOK
    <2> QED  BY <1>4, <2>4, <2>5, ThenSets, TypesFollow DEF Describe
  <1>5. CASE AddEntry(c)
    <2>1. PICK d \in Added, title \in Titles :
              /\ known' = known \cup {d}
              /\ dir' = [dir EXCEPT ![<<d, title>>] = WithYaml]
              /\ Ask(c, Work("list", d, Entry(d, title, <<d, title>>)))
      BY <1>5 DEF AddEntry
    <2>2. WithYaml \in Directories
      BY DirectoryIs DEF WithYaml, Yamls
    <2>3. <<d, title>> \in Dirs
      BY DEF Dirs
    <2>4. Typed'
      <3>1. asked' \in 0..MaxTaskCalls
        BY <2>1, AskKeepsTypes DEF Ask
      <3> QED  BY <1>5, <2>1, <2>2, <3>1 DEF AddEntry, TasksTypeOK, Typed, taskDirs
    <2> DEFINE e == Entry(d, title, <<d, title>>)
    <2>5. e \in Entries
      BY <2>3, EntryIs
    <2>6. Ask(c, Work("list", d, e))
      BY <2>1
    <2> HIDE DEF e
    <2>7. WorkOK(Work("list", d, e))
      BY <2>5, ListOK
    <2> QED  BY <2>4, <2>6, <2>7, AskSets, TypesFollow
  <1> QED  BY <1>1, <1>2, <1>3, <1>4, <1>5

LEMMA GalleryTypes ==
    ASSUME TasksTypeOK, NEW c \in TaskCalls,
           ReadGallery(c) \/ DeleteEntry(c) \/ OpenGallery(c) \/ WriteGallery(c)
    PROVE  TasksTypeOK'
  <1>1. CASE ReadGallery(c)
    <2> DEFINE e == work[c].read
               r == {x \in Listed : x.id # e.id /\ x.title # e.title} \cup {e}
    <2>1. e \in Entries
      BY <1>1 DEF ReadGallery, TasksTypeOK, WorkOK, Does
    <2>2. r \in SUBSET Entries
      BY <2>1, ListedTypes
    <2>3. Knows(c, "open", r)
      BY <1>1 DEF ReadGallery
    <2>4. Typed'
      BY <1>1 DEF ReadGallery, TasksTypeOK, Typed, taskDirs
    <2> HIDE DEF r
    <2>5. WorkOK(Work("open", work[c].on, r))
      BY <2>2, GalleryOK
    <2> QED  BY <2>3, <2>4, <2>5, KnowsSets, TypesFollow
  <1>2. CASE DeleteEntry(c)
    <2>1. \E t : \E r \in SUBSET Entries : Ask(c, Work("open", t, r))
      <3>1. PICK x \in Listed :
                \/ Ask(c, Work("open", x.id, {y \in Listed : y.id # x.id}))
                \/ Ask(c, Work("open", x.id, {y \in Listed : y.title # x.title}))
        BY <1>2 DEF DeleteEntry
      <3>2. {y \in Listed : y.id # x.id} \in SUBSET Entries
        BY ListedTypes
      <3>3. {y \in Listed : y.title # x.title} \in SUBSET Entries
        BY ListedTypes
      <3>4. ASSUME Ask(c, Work("open", x.id, {y \in Listed : y.id # x.id}))
            PROVE  \E t : \E r \in SUBSET Entries : Ask(c, Work("open", t, r))
        BY <3>2, <3>4, Zenon
      <3>5. ASSUME Ask(c, Work("open", x.id, {y \in Listed : y.title # x.title}))
            PROVE  \E t : \E r \in SUBSET Entries : Ask(c, Work("open", t, r))
        BY <3>3, <3>5, Zenon
      <3> QED  BY <3>1, <3>4, <3>5
    <2>0. PICK t : \E r \in SUBSET Entries : Ask(c, Work("open", t, r))
      BY <2>1
    <2>8. PICK r \in SUBSET Entries : Ask(c, Work("open", t, r))
      BY <2>0
    <2>2. Typed'
      <3>1. asked' \in 0..MaxTaskCalls
        BY <2>8, AskKeepsTypes DEF Ask
      <3> QED  BY <1>2, <3>1 DEF DeleteEntry, TasksTypeOK, Typed, taskDirs
    <2>3. WorkOK(Work("open", t, r))
      BY <2>8, GalleryOK
    <2> QED  BY <2>8, <2>2, <2>3, AskSets, TypesFollow
  <1>3. CASE OpenGallery(c) \/ WriteGallery(c)
    <2>1. work[c].read \in SUBSET Entries
      BY <1>3 DEF OpenGallery, WriteGallery, TasksTypeOK, WorkOK, Does
    <2>2. Typed'
      <3>1. gallery' \in [torn : BOOLEAN, list : SUBSET Entries]
        <4>1. ASSUME NEW torn \in BOOLEAN, NEW r \in SUBSET Entries
              PROVE  [torn |-> torn, list |-> r] \in [torn : BOOLEAN, list : SUBSET Entries]
          OBVIOUS
        <4>2. CASE OpenGallery(c)
          BY <4>1, <4>2 DEF OpenGallery
        <4>3. CASE WriteGallery(c)
          BY <2>1, <4>1, <4>3 DEF WriteGallery
        <4> QED  BY <1>3, <4>2, <4>3
      <3> QED  BY <1>3, <3>1 DEF OpenGallery, WriteGallery, TasksTypeOK, Typed, taskDirs
    <2>3. \E w : WorkOK(w) /\ Sets(c, w)
      BY <1>3, <2>1, ThenSets, AnswerSets, GalleryOK, NoTaskCallOK DEF OpenGallery, WriteGallery
    <2> QED  BY <2>2, <2>3, TypesFollow
  <1> QED  BY <1>1, <1>2, <1>3

LEMMA ImportTypes ==
    ASSUME TasksTypeOK, NEW c \in TaskCalls, ImportTask(c) \/ Unpack(c) \/ CutTask(c)
    PROVE  TasksTypeOK'
  <1>1. CASE ImportTask(c)
    <2>1. PICK e \in Listed, t \in Tasks :
              /\ AddTask(t, e.title, "no")
              /\ \/ e.dir \in Dirs /\ Ask(c, Work("unpack", t, e.dir))
                 \/ Ask(c, Work("yaml", t, e.dir))
      BY <1>1 DEF ImportTask
    <2>2. e \in Entries /\ e.title \in Titles
      BY ListedTypes DEF Entries
    <2>3. NewIndex(t, e.title) \in Indexes
      BY <2>2, NewIndexIs
    <2>4. Typed'
      <3>1. asked' \in 0..MaxTaskCalls
        BY <2>1, AskKeepsTypes DEF Ask
      <3> QED  BY <1>1, <2>1, <2>3, <3>1 DEF ImportTask, AddTask, NewIndex, TasksTypeOK, Typed
    <2>5. \E w : WorkOK(w) /\ Sets(c, w)
      BY <2>1, AskSets, UnpackOK, PlainOK DEF Plain
    <2> QED  BY <2>4, <2>5, TypesFollow
  <1>2. CASE Unpack(c)
    <2> DEFINE t == work[c].on  d == dir[work[c].read]
    <2>1. t \in Tasks /\ d \in Directories
      BY <1>2 DEF Unpack, TasksTypeOK, WorkOK, Does, OnTask
    <2>2. d.index \in Indexes \cup {NoIndex}
      BY <2>1 DEF Directories
    <2>3. index' \in [Tasks -> Indexes \cup {NoIndex}]
      BY <1>2, <2>1, <2>2 DEF Unpack, TasksTypeOK
    <2>6. yaml' \in [Tasks -> Yamls]
      BY <1>2, <2>1 DEF Unpack, HasYaml, TasksTypeOK, Directories
    <2>4. Typed'
      BY <1>2, <2>1, <2>3, <2>6 DEF Unpack, TasksTypeOK, Typed
    <2>5. WorkOK(Work("own", t, work[c].read))
      BY <2>1, PlainOK DEF Plain
    <2> QED  BY <1>2, <2>4, <2>5, ThenSets, TypesFollow DEF Unpack
  <1>3. CASE CutTask(c)
    <2>1. \/ Does(c, "mount") \/ Does(c, "own") \/ Does(c, "tear") \/ Does(c, "fill")
          \/ Does(c, "text") \/ Does(c, "save")
          => work[c].on \in Tasks
      BY AtTask DEF OnTask
    <2>2. Does(c, "pack") \/ Does(c, "describe") => work[c].read.dir \in Dirs
      BY AtExport
    <2>3. Typed'
      BY <1>3, <2>1, <2>2 DEF CutTask, TasksTypeOK, Typed, taskDirs
    <2> QED  BY <1>3, <2>3, AnswerSets, NoTaskCallOK, TypesFollow DEF CutTask
  <1> QED  BY <1>1, <1>2, <1>3

LEMMA StutterTypes ==
    ASSUME TasksTypeOK, UNCHANGED taskVars PROVE TasksTypeOK'
  BY DEF taskVars, taskDirs, TasksTypeOK, WorkOK

LEMMA StepTypes == TasksTypeOK /\ [TasksNext]_taskVars => TasksTypeOK'
  <1> SUFFICES ASSUME TasksTypeOK, [TasksNext]_taskVars PROVE TasksTypeOK'
    OBVIOUS
  <1>1. CASE UNCHANGED taskVars
    BY <1>1, StutterTypes
  <1>2. CASE DeleteTasks(Tasks) \/ \E t \in Tasks : DeleteFiles(t) \/ DeleteTasks({t})
    BY <1>2, DeleteTypes
  <1>3. CASE \E c \in TaskCalls :
               \/ CreateTask(c) \/ EditTask(c) \/ UpdateTask(c) \/ UploadFiles(c)
               \/ OpenYaml(c) \/ WriteYaml(c) \/ CopyZip(c) \/ Mount(c) \/ PutYaml(c)
               \/ ReadIndex(c) \/ StoreUpdate(c) \/ PutFiles(c) \/ ReadCopied(c)
               \/ TearIndex(c) \/ OwnIndex(c)
    BY <1>3, CreateTypes, WriteTypes
  <1>4. CASE \E c \in TaskCalls :
               \/ StoreIndex(c)
               \/ ExportTask(c) \/ ClearDir(c) \/ Pack(c) \/ Describe(c) \/ AddEntry(c)
               \/ ReadGallery(c) \/ DeleteEntry(c) \/ OpenGallery(c) \/ WriteGallery(c)
               \/ ImportTask(c) \/ Unpack(c) \/ CutTask(c)
    BY <1>4, StoreTypes, ExportTypes, GalleryTypes, ImportTypes
  <1> QED  BY <1>1, <1>2, <1>3, <1>4 DEF TasksNext

\* Tasks, directories, the gallery and what a request has read keep their types:
\* a request is about a task, a directory or a list wherever its next step says so.
THEOREM TasksKeepTypes == TasksSpec => []TasksTypeOK
  BY InitTypes, StepTypes, PTL DEF TasksSpec

-----------------------------------------------------------------------------
(* What the gallery lists can be imported. *)

\* A task.yaml that does not parse was refused, or is being saved.
YamlsKnown == \A t \in Tasks : yaml[t] = "bad" => t \in refused \/ Saving(t)

\* Its copies are known.
CopiesKnown == \A d \in Dirs : dir[d] # NoDir /\ dir[d].yaml = "bad" => d \in spoilt

\* Request c is copying, into directory d.
Copying(c)      == Does(c, "pack") \/ Does(c, "describe")
Exporting(d)    == \E c \in TaskCalls : Copying(c) /\ work[c].read.dir = d
NoDirs          == {NoDir, NoSource}
Importable(d)   == \/ d \in NoDirs \/ d \in halfway \cup spoilt \/ Exporting(d)
                   \/ dir[d] # NoDir /\ dir[d].yaml = "good"
BringsGood(w)   ==
    /\ w.step = "list" => Importable(w.read.dir)
    /\ w.step \in {"open", "write"} => \A e \in w.read : Importable(e.dir)

\* What is listed, or will be by a request that has read the list.
ListsGood ==
    /\ \A e \in gallery.list : Importable(e.dir)
    /\ \A c \in TaskCalls : BringsGood(work[c])

\* The inductive invariant.
GalleryInv == ListsGood /\ YamlsKnown /\ CopiesKnown

LEMMA WithYamlIs ==
    ASSUME NEW i, NEW x PROVE Directory(i, "good", x).yaml = "good"
  BY DEF Directory

LEMMA InitGallery == TasksInit => GalleryInv
  <1> SUFFICES ASSUME TasksInit PROVE GalleryInv
    OBVIOUS
  <1>1. PICK old \in {{}} \cup {{t} : t \in Tasks}, title \in Titles :
            /\ dir = [d \in Dirs |->
                   IF d[1] \in old /\ d[2] = title
                   THEN Directory(NewIndex(d[1], title), "good", FALSE)
                   ELSE NoDir]
            /\ gallery = [torn |-> FALSE, list |-> {Entry(t, title, <<t, title>>) : t \in old}]
    BY DEF TasksInit
  <1>2. ASSUME NEW e \in gallery.list PROVE Importable(e.dir)
    <2>1. PICK t \in old : e = Entry(t, title, <<t, title>>)
      BY <1>1, <1>2
    <2>2. t \in Tasks /\ e.dir = <<t, title>> /\ <<t, title>> \in Dirs
      BY <2>1 DEF Entry, Dirs
    <2>3. dir[<<t, title>>] = Directory(NewIndex(t, title), "good", FALSE)
      BY <1>1, <2>1, <2>2
    <2>4. Directory(NewIndex(t, title), "good", FALSE) \in Directories
      BY <2>2, NewIndexIs, DirectoryIs DEF Yamls
    <2>5. dir[e.dir] # NoDir
      BY <2>2, <2>3, <2>4, TasksAssumption
    <2>6. dir[e.dir].yaml = "good"
      <3>1. Directory(NewIndex(t, title), "good", FALSE).yaml = "good"
        BY WithYamlIs
      <3> HIDE DEF Directory
      <3> QED  BY <2>2, <2>3, <3>1
    <2> QED  BY <2>5, <2>6 DEF Importable
  <1>3. \A c \in TaskCalls : BringsGood(work[c])
    BY DEF TasksInit, BringsGood, NoTaskCall, Work
  <1>4. YamlsKnown
    BY DEF TasksInit, YamlsKnown
  <1>5. ASSUME NEW d \in Dirs, dir[d] # NoDir PROVE dir[d].yaml = "good"
    <2>1. dir[d] = Directory(NewIndex(d[1], title), "good", FALSE)
      BY <1>1, <1>5
    <2> QED  BY <2>1, WithYamlIs
  <1> QED  BY <1>2, <1>3, <1>4, <1>5 DEF GalleryInv, ListsGood, CopiesKnown

\* A directory stays importable through a step that leaves it alone, and those
\* who copy.
LEMMA Spared ==
    ASSUME TasksTypeOK, NEW c \in TaskCalls, NEW w, Sets(c, w), NEW d, Importable(d),
           d \in halfway \cup spoilt => d \in halfway' \cup spoilt', dir'[d] = dir[d],
           Copying(c) /\ work[c].read.dir = d => w.step \in {"pack", "describe"} /\ w.read.dir = d
    PROVE  Importable(d)'
  <1>1. DOMAIN work = TaskCalls
    BY DEF TasksTypeOK
  <1>2. Exporting(d) => Exporting(d)'
    <2> SUFFICES ASSUME NEW b \in TaskCalls, Copying(b), work[b].read.dir = d
                 PROVE  Exporting(d)'
      BY DEF Exporting
    <2>1. Copying(b)' /\ work'[b].read.dir = d
      BY <1>1 DEF Sets, Copying, Does
    <2> QED  BY <2>1 DEF Exporting
  <1> QED  BY <1>2 DEF Importable

\* A step that has nothing to do with the gallery.
Aside(c) ==
    /\ \E w : Sets(c, w) /\ w.step \notin {"list", "open", "write"}
    /\ UNCHANGED <<dir, halfway, spoilt, gallery>>
    /\ ~ Copying(c)

LEMMA AsideOf ==
    ASSUME TasksTypeOK, NEW c \in TaskCalls,
           \/ CreateTask(c) \/ OpenYaml(c) \/ WriteYaml(c) \/ CopyZip(c) \/ Mount(c)
           \/ EditTask(c) \/ PutYaml(c) \/ ReadIndex(c) \/ StoreIndex(c)
           \/ UpdateTask(c) \/ StoreUpdate(c) \/ UploadFiles(c) \/ PutFiles(c)
           \/ ExportTask(c) \/ ImportTask(c) \/ Unpack(c) \/ ReadCopied(c) \/ TearIndex(c)
           \/ OwnIndex(c)
    PROVE  Aside(c)
  <1>1. UNCHANGED <<dir, halfway, spoilt, gallery>>
    BY DEF CreateTask, OpenYaml, WriteYaml, CopyZip, Mount, EditTask, PutYaml, ReadIndex,
           StoreIndex, StoreWith, UpdateTask, StoreUpdate, UploadFiles, PutFiles, ExportTask,
           ImportTask, Unpack, ReadCopied, TearIndex, OwnIndex
  <1>2. ASSUME NEW step, step \notin {"list", "open", "write"}, NEW t, NEW r,
               Ask(c, Work(step, t, r))
        PROVE  Aside(c)
    BY <1>1, <1>2, AskSets DEF Aside, Copying, Does, NoTaskCall, Work
  <1>3. ASSUME Ask(c, NoTaskCall) PROVE Aside(c)
    BY <1>2, <1>3 DEF NoTaskCall
  <1>4. CASE \/ CreateTask(c) \/ EditTask(c) \/ UpdateTask(c) \/ UploadFiles(c)
    BY <1>2, <1>3, <1>4 DEF CreateTask, EditTask, UpdateTask, UploadFiles
  <1>5. CASE ExportTask(c) \/ ImportTask(c)
    BY <1>2, <1>5 DEF ExportTask, ImportTask
  <1>6. ASSUME ~ Copying(c), Answer(c) PROVE Aside(c)
    BY <1>1, <1>6, AnswerSets DEF Aside, NoTaskCall, Work
  <1>7. ASSUME ~ Copying(c), NEW step, step \notin {"list", "open", "write"}, Then(c, step)
        PROVE  Aside(c)
    <2>1. Sets(c, Work(step, work[c].on, work[c].read)) /\ Work(step, work[c].on, work[c].read).step = step
      BY <1>7, ThenSets DEF Work
    <2> QED  BY <1>1, <1>7, <2>1 DEF Aside
  <1>8. ASSUME ~ Copying(c), NEW step, step \notin {"list", "open", "write"}, NEW r,
               Knows(c, step, r)
        PROVE  Aside(c)
    <2>1. Sets(c, Work(step, work[c].on, r)) /\ Work(step, work[c].on, r).step = step
      BY <1>8, KnowsSets DEF Work
    <2> QED  BY <1>1, <1>8, <2>1 DEF Aside
  <1>9. CASE \/ OpenYaml(c) \/ WriteYaml(c) \/ CopyZip(c) \/ Mount(c) \/ PutYaml(c)
             \/ StoreIndex(c) \/ StoreUpdate(c) \/ PutFiles(c) \/ Unpack(c) \/ TearIndex(c)
             \/ OwnIndex(c)
    <2>1. ~ Copying(c)
      BY <1>9, StepsOf DEF Copying, Does
    <2>2. Answer(c) \/ \E step \in Plain \cup {"fill"} : Then(c, step)
      BY <1>9, NextOf DEF Plain
    <2> QED  BY <1>6, <1>7, <2>1, <2>2 DEF Plain
  <1>10. CASE ReadIndex(c) \/ ReadCopied(c)
    <2>1. ~ Copying(c)
      BY <1>10, StepsOf DEF Copying, Does
    <2>2. Answer(c) \/ \E step \in {"store", "restore", "tear"} : \E r : Knows(c, step, r)
      BY <1>10, NextOf
    <2> QED  BY <1>6, <1>8, <2>1, <2>2
  <1> QED  BY <1>4, <1>5, <1>9, <1>10

\* A directory that can be imported, or is none, goes on to.
Follows == \A d \in Dirs \cup NoDirs : Importable(d) => Importable(d)'

LEMMA BringsFollows ==
    ASSUME Follows, NEW v, WorkOK(v), BringsGood(v) PROVE BringsGood(v)'
  <1>1. \A e \in Entries : Importable(e.dir) => Importable(e.dir)'
    BY DEF Follows, Entries, NoDirs
  <1>2. CASE v.step = "list"
    <2>1. v.read \in Entries /\ Importable(v.read.dir)
      BY <1>2 DEF WorkOK, BringsGood
    <2> QED  BY <1>1, <1>2, <2>1 DEF BringsGood
  <1>3. CASE v.step \in {"open", "write"}
    <2>1. \A e \in v.read : e \in Entries /\ Importable(e.dir)
      BY <1>3 DEF WorkOK, BringsGood
    <2> QED  BY <1>1, <1>3, <2>1 DEF BringsGood
  <1>4. CASE v.step \notin {"list", "open", "write"}
    BY <1>4 DEF BringsGood
  <1> QED  BY <1>2, <1>3, <1>4

LEMMA ListedFollow ==
    ASSUME TasksTypeOK, ListsGood, Follows, NEW c \in TaskCalls, NEW w, Sets(c, w),
           BringsGood(w)', gallery' = gallery
    PROVE  ListsGood'
  <1>1. \A e \in Entries : Importable(e.dir) => Importable(e.dir)'
    BY DEF Follows, Entries, NoDirs
  <1>2. ASSUME NEW b \in TaskCalls PROVE BringsGood(work[b])'
    <2>1. CASE b = c
      BY <2>1 DEF Sets, TasksTypeOK
    <2>2. CASE b # c
      <3>1. WorkOK(work[b]) /\ BringsGood(work[b])
        BY DEF TasksTypeOK, ListsGood
      <3>2. PICK v : v = work[b]
        OBVIOUS
      <3>3. BringsGood(v)'
        BY <3>1, <3>2, BringsFollows
      <3>4. work'[b] = v
        BY <2>2, <3>2 DEF Sets, TasksTypeOK
      <3> QED  BY <3>3, <3>4
    <2> QED  BY <2>1, <2>2
  <1>3. \A e \in gallery'.list : Importable(e.dir)'
    BY <1>1 DEF ListsGood, TasksTypeOK
  <1> QED  BY <1>2, <1>3 DEF ListsGood

LEMMA StillFollows ==
    ASSUME TasksTypeOK, NEW c \in TaskCalls, NEW w, Sets(c, w), UNCHANGED <<dir, halfway, spoilt>>,
           ~ Copying(c)
    PROVE  Follows
  BY Spared DEF Follows

LEMMA AsideKeeps ==
    ASSUME TasksTypeOK, ListsGood, NEW c \in TaskCalls, Aside(c)
    PROVE  ListsGood'
  <1>1. PICK w : Sets(c, w) /\ w.step \notin {"list", "open", "write"}
    BY DEF Aside
  <1>2. BringsGood(w)'
    BY <1>1 DEF BringsGood
  <1> QED  BY <1>1, <1>2, StillFollows, ListedFollow DEF Aside

LEMMA ClearKeeps ==
    ASSUME TasksTypeOK, ListsGood, NEW c \in TaskCalls, ClearDir(c)
    PROVE  ListsGood'
  <1> DEFINE t == work[c].on
  <1>0. PICK k : k = work[c].read.dir
    OBVIOUS
  <1>1. t \in Tasks /\ work[c].read \in Entries /\ k \in Dirs /\ ~ Copying(c)
    BY <1>0, AtExport DEF ClearDir, Copying, Does
  <1>2. CASE Exists(t)
    <2>1. Sets(c, Work("pack", t, work[c].read)) /\ dir' = [dir EXCEPT ![k] = NoDir]
      BY <1>0, <1>2, ThenSets DEF ClearDir
    <2>2. PICK w : w = Work("pack", t, work[c].read)
      OBVIOUS
    <2>3. Sets(c, w) /\ w.step = "pack" /\ w.read.dir = k
      BY <1>0, <2>1, <2>2 DEF Work
    <2>4. work'[c] = w
      BY <2>3 DEF Sets, TasksTypeOK
    <2>5. Importable(k)'
      BY <2>3, <2>4 DEF Importable, Exporting, Copying, Does
    <2>6. ASSUME NEW d \in Dirs \cup NoDirs, Importable(d), d # k PROVE Importable(d)'
      <3>1. dir'[d] = dir[d]
        BY <2>1, <2>6 DEF TasksTypeOK
      <3> QED  BY <1>1, <2>3, <2>6, <3>1, Spared DEF ClearDir
    <2>7. Follows
      <3> SUFFICES ASSUME NEW d \in Dirs \cup NoDirs, Importable(d) PROVE Importable(d)'
        BY DEF Follows
      <3>1. CASE d = k  BY <2>5, <3>1
      <3>2. CASE d # k  BY <2>6, <3>2
      <3> QED  BY <3>1, <3>2
    <2>8. BringsGood(w)'
      BY <2>3 DEF BringsGood
    <2> QED  BY <2>3, <2>7, <2>8, ListedFollow DEF ClearDir
  <1>3. CASE ~ Exists(t)
    <2>0. PICK none \in {NoDir, NoSource} :
              Knows(c, "list", Entry(work[c].read.id, work[c].read.title, none))
      BY <1>3 DEF ClearDir
    <2>1. PICK w : w = Work("list", t, Entry(work[c].read.id, work[c].read.title, none))
      OBVIOUS
    <2>2. Sets(c, w) /\ dir' = dir
      BY <1>3, <2>0, <2>1, KnowsSets DEF ClearDir
    <2>3. w.step = "list" /\ w.read.dir = none
      BY <2>1 DEF Work, Entry
    <2>4. BringsGood(w)'
      BY <2>0, <2>3 DEF BringsGood, Importable, NoDirs
    <2> QED  BY <1>1, <2>2, <2>4, StillFollows, ListedFollow DEF ClearDir
  <1> QED  BY <1>2, <1>3

LEMMA PackKeeps ==
    ASSUME TasksTypeOK, ListsGood, NEW c \in TaskCalls, Pack(c)
    PROVE  ListsGood'
  <1> DEFINE t == work[c].on
  <1>0. PICK k : k = work[c].read.dir
    OBVIOUS
  <1>1. /\ k \in Dirs /\ UNCHANGED <<halfway, gallery>> /\ dir' = [dir EXCEPT ![k] = Copy(t)]
        /\ spoilt' = spoilt \cup {k} \/ spoilt' = spoilt \ {k}
    BY <1>0, AtExport DEF Pack
  <1>2. PICK w : w = Work("describe", t, work[c].read)
    OBVIOUS
  <1>3. Sets(c, w) /\ w.step = "describe" /\ w.read.dir = k
    BY <1>0, <1>2, ThenSets DEF Pack, Work
  <1>4. Importable(k)'
    BY <1>3 DEF Sets, TasksTypeOK, Importable, Exporting, Copying, Does
  <1>5. ASSUME NEW d \in Dirs \cup NoDirs, Importable(d), d # k PROVE Importable(d)'
    <2>1. dir'[d] = dir[d]
      BY <1>1, <1>5 DEF TasksTypeOK
    <2> QED  BY <1>0, <1>1, <1>3, <1>5, <2>1, Spared
  <1>6. Follows
    <2> SUFFICES ASSUME NEW d \in Dirs \cup NoDirs, Importable(d) PROVE Importable(d)'
      BY DEF Follows
    <2>1. CASE d = k  BY <1>4, <2>1
    <2>2. CASE d # k  BY <1>5, <2>2
    <2> QED  BY <2>1, <2>2
  <1>7. BringsGood(w)'
    BY <1>3 DEF BringsGood
  <1> QED  BY <1>1, <1>3, <1>6, <1>7, ListedFollow

\* A step that leaves k with a task.yaml, and every other directory alone.
LEMMA MadeGood ==
    ASSUME TasksTypeOK, NEW c \in TaskCalls, NEW w, Sets(c, w),
           NEW k \in Dirs, Importable(k)',
           halfway' \cup {k} = halfway \cup {k}, spoilt' = spoilt,
           \A d \in Dirs \cup NoDirs : d # k => dir'[d] = dir[d],
           Copying(c) => work[c].read.dir = k
    PROVE  Follows
  <1> SUFFICES ASSUME NEW d \in Dirs \cup NoDirs, Importable(d), d # k PROVE Importable(d)'
    BY DEF Follows
  <1>1. d \in halfway \cup spoilt => d \in halfway' \cup spoilt'
    OBVIOUS
  <1>2. Exporting(d) => Exporting(d)'
    <2> SUFFICES ASSUME NEW b \in TaskCalls, Copying(b), work[b].read.dir = d
                 PROVE  Exporting(d)'
      BY DEF Exporting
    <2>1. b # c
      OBVIOUS
    <2>2. Copying(b)' /\ work'[b].read.dir = d
      BY <2>1 DEF Sets, Copying, Does, TasksTypeOK
    <2> QED  BY <2>2 DEF Exporting
  <1> QED  BY <1>1, <1>2 DEF Importable

LEMMA DescribeKeeps ==
    ASSUME TasksTypeOK, ListsGood, CopiesKnown, NEW c \in TaskCalls, Describe(c)
    PROVE  ListsGood'
  <1>0. PICK k : k = work[c].read.dir
    OBVIOUS
  <1> DEFINE t == work[c].on
             new == Described(dir[k])
  <1>1. k \in Dirs /\ work[c].read \in Entries /\ dir[k] \in Directories \cup {NoDir}
    BY <1>0, AtExport DEF Describe, TasksTypeOK
  <1>2. /\ dir' = [dir EXCEPT ![k] = new] /\ halfway' = halfway \ {k}
        /\ gallery' = gallery /\ spoilt' = spoilt
    BY <1>0 DEF Describe, Described
  <1>3. new # NoDir /\ (new.yaml = "good" \/ k \in spoilt)
    BY <1>1, DescribedIs, TasksAssumption DEF CopiesKnown
  <1> HIDE DEF new
  <1>4. PICK w : w = Work("list", t, work[c].read)
    OBVIOUS
  <1>5. Sets(c, w) /\ w.step = "list" /\ w.read.dir = k
    BY <1>0, <1>4, ThenSets DEF Describe, Work
  <1>6. dir'[k] = new
    BY <1>1, <1>2 DEF TasksTypeOK
  <1>7. Importable(k)'
    BY <1>2, <1>3, <1>6 DEF Importable
  <1>8. \A b \in Dirs \cup NoDirs : b # k => dir'[b] = dir[b]
    BY <1>2 DEF TasksTypeOK
  <1>9. Follows
    BY <1>0, <1>1, <1>2, <1>5, <1>7, <1>8, MadeGood
  <1>10. BringsGood(w)'
    BY <1>5, <1>7 DEF BringsGood
  <1> QED  BY <1>2, <1>5, <1>9, <1>10, ListedFollow

LEMMA AddKeeps ==
    ASSUME TasksTypeOK, ListsGood, NEW c \in TaskCalls, AddEntry(c)
    PROVE  ListsGood'
  <1>1. PICK id \in Added, title \in Titles :
            /\ dir' = [dir EXCEPT ![<<id, title>>] = WithYaml]
            /\ Ask(c, Work("list", id, Entry(id, title, <<id, title>>)))
    BY DEF AddEntry
  <1>2. PICK k : k = <<id, title>>
    OBVIOUS
  <1>3. k \in Dirs
    BY <1>2 DEF Dirs
  <1>4. PICK w : w = Work("list", id, Entry(id, title, <<id, title>>))
    OBVIOUS
  <1>5. Sets(c, w) /\ w.step = "list" /\ w.read.dir = k /\ ~ Copying(c)
    BY <1>1, <1>2, <1>4, AskSets DEF Work, Entry, Copying, Does, NoTaskCall
  <1>6. WithYaml.yaml = "good" /\ WithYaml # NoDir
    BY WithYamlIs, DirectoryIs, TasksAssumption DEF WithYaml, Yamls
  <1>7. dir'[k] = WithYaml
    BY <1>1, <1>2, <1>3 DEF TasksTypeOK
  <1>8. Importable(k)'
    BY <1>6, <1>7 DEF Importable
  <1>9. \A b \in Dirs \cup NoDirs : b # k => dir'[b] = dir[b]
    BY <1>1, <1>2 DEF TasksTypeOK
  <1>10. Follows
    BY <1>3, <1>5, <1>8, <1>9, MadeGood DEF AddEntry
  <1>11. BringsGood(w)'
    BY <1>5, <1>8 DEF BringsGood
  <1> QED  BY <1>5, <1>10, <1>11, ListedFollow DEF AddEntry

LEMMA CutKeeps ==
    ASSUME TasksTypeOK, ListsGood, NEW c \in TaskCalls, CutTask(c)
    PROVE  ListsGood'
  <1>1. Sets(c, NoTaskCall)
    BY AnswerSets DEF CutTask
  <1>2. BringsGood(NoTaskCall)'
    BY DEF BringsGood, NoTaskCall, Work
  <1>3. Follows
    <2>1. CASE Copying(c)
      <3>1. work[c].read.dir \in Dirs
        BY <2>1, AtExport DEF Copying
      <3>2. PICK k \in Dirs : k = work[c].read.dir
        BY <3>1
      <3>3. dir' = dir /\ halfway' = halfway \cup {k} /\ spoilt' = spoilt
        BY <2>1, <3>2 DEF CutTask, Copying
      <3>4. Importable(k)'
        BY <3>3 DEF Importable
      <3> QED  BY <1>1, <3>2, <3>3, <3>4, MadeGood
    <2>2. CASE ~ Copying(c)
      BY <1>1, <2>2, StillFollows DEF CutTask, Copying
    <2> QED  BY <2>1, <2>2
  <1> QED  BY <1>1, <1>2, <1>3, ListedFollow DEF CutTask

LEMMA ReadKeeps ==
    ASSUME TasksTypeOK, ListsGood, NEW c \in TaskCalls, ReadGallery(c) \/ DeleteEntry(c)
    PROVE  ListsGood'
  <1>1. \A x \in Listed : Importable(x.dir) /\ x.dir \in Dirs \cup NoDirs
    BY ListedTypes DEF Listed, ListsGood, Entries, NoDirs
  <1>2. ASSUME NEW w, Sets(c, w), w.step = "open", ~ Copying(c),
               \A x \in w.read : Importable(x.dir) /\ x.dir \in Dirs \cup NoDirs
        PROVE  ListsGood'
    <2>1. UNCHANGED <<dir, halfway, spoilt, gallery>>
      BY DEF ReadGallery, DeleteEntry
    <2>2. Follows
      BY <1>2, <2>1, StillFollows
    <2>3. \A x \in w.read : Importable(x.dir)'
      BY <1>2, <2>2 DEF Follows
    <2>4. BringsGood(w)'
      BY <1>2, <2>3 DEF BringsGood
    <2> QED  BY <1>2, <2>1, <2>2, <2>4, ListedFollow
  <1>3. CASE ReadGallery(c)
    <2> DEFINE e == work[c].read
               r == {x \in Listed : x.id # e.id /\ x.title # e.title} \cup {e}
    <2>1. Does(c, "list") /\ Knows(c, "open", r)
      BY <1>3 DEF ReadGallery
    <2>2. Importable(e.dir) /\ e.dir \in Dirs \cup NoDirs /\ ~ Copying(c)
      <3>1. WorkOK(work[c]) /\ BringsGood(work[c]) /\ work[c].step = "list"
        BY <2>1 DEF ListsGood, TasksTypeOK, Does
      <3>2. e \in Entries /\ Importable(e.dir)
        BY <3>1 DEF WorkOK, BringsGood
      <3> QED  BY <3>1, <3>2 DEF Entries, NoDirs, Does, Copying
    <2>3. \A x \in r : Importable(x.dir) /\ x.dir \in Dirs \cup NoDirs
      BY <1>1, <2>2
    <2> HIDE DEF r
    <2>4. PICK w : w = Work("open", work[c].on, r)
      OBVIOUS
    <2>5. Sets(c, w) /\ w.step = "open" /\ w.read = r
      BY <2>1, <2>4, KnowsSets DEF Work
    <2> QED  BY <1>2, <2>2, <2>3, <2>5
  <1>4. CASE DeleteEntry(c)
    <2>1. ASSUME NEW t, NEW r, Ask(c, Work("open", t, r)), r \subseteq Listed
          PROVE  ListsGood'
      <3>1. PICK w : w = Work("open", t, r)
        OBVIOUS
      <3>2. Sets(c, w) /\ w.step = "open" /\ w.read = r /\ ~ Copying(c)
        BY <2>1, <3>1, AskSets DEF Work, Copying, Does, NoTaskCall
      <3> QED  BY <1>1, <1>2, <2>1, <3>2
    <2>2. PICK x \in Listed :
              \/ Ask(c, Work("open", x.id, {y \in Listed : y.id # x.id}))
              \/ Ask(c, Work("open", x.id, {y \in Listed : y.title # x.title}))
      BY <1>4 DEF DeleteEntry
    <2>3. CASE Ask(c, Work("open", x.id, {y \in Listed : y.id # x.id}))
      BY <2>1, <2>3
    <2>4. CASE Ask(c, Work("open", x.id, {y \in Listed : y.title # x.title}))
      BY <2>1, <2>4
    <2> QED  BY <2>2, <2>3, <2>4
  <1> QED  BY <1>3, <1>4

LEMMA WriteKeeps ==
    ASSUME TasksTypeOK, ListsGood, NEW c \in TaskCalls, OpenGallery(c) \/ WriteGallery(c)
    PROVE  ListsGood'
  <1>1. PICK w : \/ OpenGallery(c) /\ w = Work("write", work[c].on, work[c].read)
                 \/ WriteGallery(c) /\ w = NoTaskCall
    OBVIOUS
  <1>2. Sets(c, w) /\ (w.step = "write" => w.read = work[c].read) /\ w.step \in {"write", "none"}
    BY <1>1, ThenSets, AnswerSets DEF OpenGallery, WriteGallery, Work, NoTaskCall
  <1>3. \A x \in work[c].read : Importable(x.dir) /\ x.dir \in Dirs \cup NoDirs
    <2>1. WorkOK(work[c]) /\ BringsGood(work[c]) /\ work[c].step \in {"open", "write"}
      BY StepsOf DEF ListsGood, TasksTypeOK
    <2>2. \A x \in work[c].read : x \in Entries /\ Importable(x.dir)
      BY <2>1 DEF WorkOK, BringsGood
    <2> QED  BY <2>2 DEF Entries, NoDirs
  <1>4. UNCHANGED <<dir, halfway, spoilt>> /\ ~ Copying(c)
    BY StepsOf DEF OpenGallery, WriteGallery, Copying, Does
  <1>5. Follows
    BY <1>2, <1>4, StillFollows
  <1>6. PICK r : r = work[c].read
    OBVIOUS
  <1>7. BringsGood(w)'
    <2>1. \A x \in work[c].read : Importable(x.dir)'
      BY <1>3, <1>5 DEF Follows
    <2>2. CASE w.step = "write"
      <3>1. w.read = r
        BY <1>2, <1>6, <2>2
      <3>2. \A x \in r : Importable(x.dir)'
        BY <1>6, <2>1
      <3> QED  BY <2>2, <3>1, <3>2 DEF BringsGood
    <2>3. CASE w.step = "none"
      BY <2>3 DEF BringsGood
    <2> QED  BY <1>2, <2>2, <2>3
  <1>8. gallery'.list \subseteq r
    BY <1>6 DEF OpenGallery, WriteGallery
  <1>9. \A e \in gallery'.list : Importable(e.dir)'
    BY <1>3, <1>5, <1>6, <1>8 DEF Follows
  <1>10. ASSUME NEW b \in TaskCalls PROVE BringsGood(work[b])'
    <2>1. CASE b = c
      BY <1>2, <1>7, <2>1 DEF Sets, TasksTypeOK
    <2>2. CASE b # c
      <3>1. PICK v : v = work[b]
        OBVIOUS
      <3>2. WorkOK(v) /\ BringsGood(v) /\ work'[b] = v
        BY <1>2, <2>2, <3>1 DEF Sets, TasksTypeOK, ListsGood
      <3>3. BringsGood(v)'
        BY <1>5, <3>2, BringsFollows
      <3> QED  BY <3>2, <3>3
    <2> QED  BY <2>1, <2>2
  <1> QED  BY <1>9, <1>10 DEF ListsGood

LEMMA RestKeeps ==
    ASSUME TasksTypeOK, ListsGood, UNCHANGED <<dir, halfway, spoilt, gallery, work>>
    PROVE  ListsGood'
  BY DEF ListsGood, BringsGood, Importable, Exporting, Copying, Does

\* Who saves goes on to, if it is not c that does, on t.
LEMMA SavingStays ==
    ASSUME TasksTypeOK, NEW c \in TaskCalls, NEW w, Sets(c, w), NEW t, Saving(t),
           (Does(c, "text") \/ Does(c, "save")) => work[c].on # t
    PROVE  Saving(t)'
  BY DEF Saving, Does, Sets, TasksTypeOK

\* Request c leaves all task.yaml but that of k, which is known.
LEMMA YamlsFollow ==
    ASSUME TasksTypeOK, YamlsKnown, NEW c \in TaskCalls, NEW w, Sets(c, w), NEW k,
           (Does(c, "text") \/ Does(c, "save")) => work[c].on = k,
           \A t \in Tasks : t # k => yaml'[t] = yaml[t] /\ (t \in refused => t \in refused'),
           k \in Tasks => (yaml'[k] = "bad" => k \in refused' \/ Saving(k)')
    PROVE  YamlsKnown'
  BY SavingStays DEF YamlsKnown

\* A step of c that neither saves a task.yaml nor takes one.
LEMMA YamlsAside ==
    ASSUME TasksTypeOK, YamlsKnown, NEW c \in TaskCalls, NEW w, Sets(c, w),
           ~ Does(c, "text"), ~ Does(c, "save"), UNCHANGED <<yaml, refused>>
    PROVE  YamlsKnown'
  BY SavingStays DEF YamlsKnown

LEMMA SetsSome ==
    ASSUME NEW c,
           \/ Answer(c) \/ \E w : Ask(c, w) \/ \E step : Then(c, step) \/ \E r : Knows(c, step, r)
    PROVE  \E w : Sets(c, w)
  BY AskSets, AnswerSets, ThenSets, KnowsSets

LEMMA StepYamls ==
    ASSUME TasksTypeOK, YamlsKnown, [TasksNext]_taskVars PROVE YamlsKnown'
  <1>1. CASE UNCHANGED taskVars
    BY <1>1 DEF taskVars, taskDirs, YamlsKnown, Saving, Does
  <1>2. ASSUME NEW S \in SUBSET Tasks, DeleteTasks(S) \/ \E t \in Tasks : DeleteFiles(t)
        PROVE  YamlsKnown'
    <2>1. \A t \in Tasks : yaml'[t] \in {yaml[t], "none"}
      BY <1>2 DEF DeleteTasks, DeleteFiles
    <2>2. UNCHANGED <<refused, work>>
      BY <1>2 DEF DeleteTasks, DeleteFiles
    <2> QED  BY <2>1, <2>2 DEF YamlsKnown, Saving, Does
  <1>3. ASSUME NEW c \in TaskCalls,
               \/ CreateTask(c) \/ Mount(c) \/ EditTask(c) \/ ReadIndex(c) \/ StoreIndex(c)
               \/ UpdateTask(c) \/ StoreUpdate(c) \/ UploadFiles(c) \/ PutFiles(c)
               \/ ExportTask(c) \/ ClearDir(c) \/ Pack(c) \/ Describe(c) \/ AddEntry(c)
               \/ ReadGallery(c) \/ DeleteEntry(c) \/ OpenGallery(c) \/ WriteGallery(c)
               \/ ImportTask(c) \/ ReadCopied(c) \/ TearIndex(c) \/ OwnIndex(c)
        PROVE  YamlsKnown'
    <2>1. PICK w : Sets(c, w)
      <3>1. \/ Answer(c) \/ \E v : Ask(c, v)
            \/ \E step : Then(c, step) \/ \E r : Knows(c, step, r)
        BY <1>3 DEF CreateTask, Mount, EditTask, ReadIndex, StoreIndex, StoreWith, UpdateTask,
                    StoreUpdate, UploadFiles, PutFiles, ExportTask, ClearDir, Pack, Describe,
                    AddEntry, ReadGallery, DeleteEntry, OpenGallery, WriteGallery, ImportTask,
                    ReadCopied, TearIndex, OwnIndex
      <3> QED  BY <3>1, SetsSome
    <2>2. ~ Does(c, "text") /\ ~ Does(c, "save")
      BY <1>3, StepsOf DEF Does
    <2>3. UNCHANGED <<yaml, refused>>
      BY <1>3 DEF CreateTask, Mount, EditTask, ReadIndex, StoreIndex, StoreWith, UpdateTask,
                  StoreUpdate, UploadFiles, PutFiles, ExportTask, ClearDir, Pack, Describe,
                  AddEntry, ReadGallery, DeleteEntry, OpenGallery, WriteGallery, ImportTask,
                  ReadCopied, TearIndex, OwnIndex, taskDirs
    <2> QED  BY <2>1, <2>2, <2>3, YamlsAside
  <1>4. ASSUME NEW c \in TaskCalls, WriteYaml(c) \/ CopyZip(c) \/ PutYaml(c) \/ Unpack(c)
        PROVE  YamlsKnown'
    <2>1. PICK k : k = work[c].on
      OBVIOUS
    <2>2. PICK w : Sets(c, w)
      BY <1>4, SetsSome DEF WriteYaml, CopyZip, PutYaml, Unpack
    <2>3. k \in Tasks
      BY <1>4, <2>1, AtTask DEF WriteYaml, CopyZip, PutYaml, Unpack, OnTask
    <2>4. \A t \in Tasks : t # k => yaml'[t] = yaml[t] /\ (t \in refused => t \in refused')
      BY <1>4, <2>1 DEF WriteYaml, CopyZip, PutYaml, Unpack, HasYaml, TasksTypeOK
    <2>5. yaml'[k] = "bad" => k \in refused' \/ Saving(k)'
      <3>1. CASE WriteYaml(c) \/ CopyZip(c) \/ PutYaml(c)
        BY <2>1, <2>3, <3>1 DEF WriteYaml, CopyZip, PutYaml, HasYaml, TasksTypeOK
      <3>2. CASE Unpack(c)
        <4>1. PICK d : d = dir[work[c].read]
          OBVIOUS
        <4>2. /\ yaml'[k] = IF d.yaml = "none" THEN yaml[k] ELSE d.yaml
              /\ refused' = IF d.yaml = "bad" THEN refused \cup {k} ELSE refused
          BY <2>1, <2>3, <3>2, <4>1 DEF Unpack, HasYaml, TasksTypeOK
        <4>3. Saving(k) => Saving(k)'
          BY <2>2, <3>2, SavingStays DEF Unpack, Does
        <4> QED  BY <2>3, <4>2, <4>3 DEF YamlsKnown
      <3> QED  BY <1>4, <3>1, <3>2
    <2> QED  BY <2>1, <2>2, <2>4, <2>5, YamlsFollow
  <1>5. ASSUME NEW c \in TaskCalls, OpenYaml(c) PROVE YamlsKnown'
    <2>1. PICK k : k = work[c].on
      OBVIOUS
    <2>2. PICK step \in {"text", "save"} : Then(c, step)
      BY <1>5 DEF OpenYaml
    <2>3. PICK w : w = Work(step, k, work[c].read)
      OBVIOUS
    <2>4. Sets(c, w) /\ w.step = step /\ w.on = k
      BY <2>1, <2>2, <2>3, ThenSets DEF Work
    <2>5. Saving(k)'
      BY <2>4 DEF Saving, Does, Sets, TasksTypeOK
    <2>6. \A t \in Tasks : t # k => yaml'[t] = yaml[t] /\ (t \in refused => t \in refused')
      BY <1>5, <2>1 DEF OpenYaml, HasYaml, TasksTypeOK
    <2> QED  BY <2>1, <2>4, <2>5, <2>6, YamlsFollow
  <1>6. ASSUME NEW c \in TaskCalls, CutTask(c) PROVE YamlsKnown'
    <2>1. PICK k : k = work[c].on
      OBVIOUS
    <2>2. Sets(c, NoTaskCall)
      BY <1>6, AnswerSets DEF CutTask
    <2>3. /\ yaml' = yaml
          /\ refused' = IF Does(c, "text") \/ Does(c, "save") THEN refused \cup {k} ELSE refused
      BY <1>6, <2>1 DEF CutTask, taskDirs
    <2>4. CASE Does(c, "text") \/ Does(c, "save")
      <3>1. k \in refused' /\ \A t \in refused : t \in refused'
        BY <2>3, <2>4
      <3> QED  BY <2>1, <2>2, <2>3, <3>1, YamlsFollow
    <2>5. CASE ~ (Does(c, "text") \/ Does(c, "save"))
      BY <2>2, <2>3, <2>5, YamlsAside
    <2> QED  BY <2>4, <2>5
  <1> QED  BY <1>1, <1>2, <1>3, <1>4, <1>5, <1>6 DEF TasksNext

LEMMA StepCopies ==
    ASSUME TasksTypeOK, YamlsKnown, CopiesKnown, [TasksNext]_taskVars PROVE CopiesKnown'
  <1>1. ASSUME UNCHANGED <<dir, spoilt>> PROVE CopiesKnown'
    BY <1>1 DEF CopiesKnown
  <1>2. ASSUME NEW k \in Dirs, NEW new, dir' = [dir EXCEPT ![k] = new],
               \A d \in Dirs : d # k /\ d \in spoilt => d \in spoilt',
               new # NoDir /\ new.yaml = "bad" => k \in spoilt'
        PROVE  CopiesKnown'
    BY <1>2 DEF CopiesKnown, TasksTypeOK
  <1>3. ASSUME NEW c \in TaskCalls, ClearDir(c) PROVE CopiesKnown'
    <2>1. work[c].read.dir \in Dirs /\ spoilt' = spoilt
      BY <1>3, AtExport DEF ClearDir
    <2> QED  BY <1>1, <1>2, <1>3, <2>1 DEF ClearDir
  <1>4. ASSUME NEW c \in TaskCalls, Pack(c) PROVE CopiesKnown'
    <2> DEFINE t == work[c].on
    <2>1. PICK k : k = work[c].read.dir
      OBVIOUS
    <2>2. t \in Tasks /\ k \in Dirs
      BY <1>4, <2>1, AtExport DEF Pack
    <2>3. Copy(t).yaml = yaml[t]
      BY DEF Copy, Directory
    <2>4. /\ dir' = [dir EXCEPT ![k] = Copy(t)]
          /\ spoilt' = IF t \in refused \/ Saving(t) THEN spoilt \cup {k} ELSE spoilt \ {k}
      BY <1>4, <2>1 DEF Pack
    <2> HIDE DEF Copy
    <2>5. Copy(t).yaml = "bad" => k \in spoilt'
      BY <2>2, <2>3, <2>4 DEF YamlsKnown
    <2> QED  BY <1>2, <2>2, <2>4, <2>5
  <1>5. ASSUME NEW c \in TaskCalls, Describe(c) PROVE CopiesKnown'
    <2>1. PICK k : k = work[c].read.dir
      OBVIOUS
    <2>2. k \in Dirs /\ spoilt' = spoilt
      BY <1>5, <2>1, AtExport DEF Describe
    <2>3. dir' = [dir EXCEPT ![k] = Described(dir[k])]
      BY <1>5, <2>1 DEF Describe, Described
    <2>4. dir[k] \in Directories \cup {NoDir}
      BY <2>2 DEF TasksTypeOK
    <2>5. Described(dir[k]).yaml = "bad" => k \in spoilt
      BY <2>2, <2>4, DescribedIs DEF CopiesKnown
    <2> QED  BY <1>2, <2>2, <2>3, <2>5
  <1>6. ASSUME NEW c \in TaskCalls, AddEntry(c) PROVE CopiesKnown'
    <2>1. PICK id \in Added, title \in Titles : dir' = [dir EXCEPT ![<<id, title>>] = WithYaml]
      BY <1>6 DEF AddEntry
    <2>2. <<id, title>> \in Dirs /\ spoilt' = spoilt
      BY <1>6 DEF Dirs, AddEntry
    <2>3. WithYaml.yaml = "good"
      BY WithYamlIs DEF WithYaml
    <2> QED  BY <1>2, <2>1, <2>2, <2>3
  <1>7. ASSUME NEW c \in TaskCalls,
               \/ CreateTask(c) \/ OpenYaml(c) \/ WriteYaml(c) \/ CopyZip(c) \/ Mount(c)
               \/ EditTask(c) \/ PutYaml(c) \/ ReadIndex(c) \/ StoreIndex(c)
               \/ UpdateTask(c) \/ StoreUpdate(c) \/ UploadFiles(c) \/ PutFiles(c)
               \/ ExportTask(c) \/ ImportTask(c) \/ Unpack(c) \/ ReadCopied(c) \/ TearIndex(c)
               \/ OwnIndex(c)
        PROVE  CopiesKnown'
    BY <1>1, <1>7, AsideOf DEF Aside
  <1>8. ASSUME NEW c \in TaskCalls,
               \/ ReadGallery(c) \/ DeleteEntry(c) \/ OpenGallery(c) \/ WriteGallery(c)
               \/ CutTask(c)
        PROVE  CopiesKnown'
    BY <1>1, <1>8 DEF ReadGallery, DeleteEntry, OpenGallery, WriteGallery, CutTask
  <1>9. CASE DeleteTasks(Tasks) \/ \E t \in Tasks : DeleteFiles(t) \/ DeleteTasks({t})
    BY <1>1, <1>9 DEF DeleteTasks, DeleteFiles
  <1>10. CASE UNCHANGED taskVars
    BY <1>1, <1>10 DEF taskVars
  <1> QED  BY <1>3, <1>4, <1>5, <1>6, <1>7, <1>8, <1>9, <1>10 DEF TasksNext

LEMMA StepLists ==
    ASSUME TasksTypeOK, GalleryInv, [TasksNext]_taskVars PROVE ListsGood'
  <1>0. ListsGood /\ CopiesKnown
    BY DEF GalleryInv
  <1>1. CASE UNCHANGED taskVars
    BY <1>0, <1>1, RestKeeps DEF taskVars
  <1>2. CASE DeleteTasks(Tasks) \/ \E t \in Tasks : DeleteFiles(t) \/ DeleteTasks({t})
    BY <1>0, <1>2, RestKeeps DEF DeleteFiles, DeleteTasks
  <1>3. CASE \E c \in TaskCalls :
               \/ CreateTask(c) \/ OpenYaml(c) \/ WriteYaml(c) \/ CopyZip(c) \/ Mount(c)
               \/ EditTask(c) \/ PutYaml(c) \/ ReadIndex(c) \/ StoreIndex(c)
               \/ UpdateTask(c) \/ StoreUpdate(c) \/ UploadFiles(c) \/ PutFiles(c)
               \/ ExportTask(c) \/ ImportTask(c) \/ Unpack(c) \/ ReadCopied(c) \/ TearIndex(c)
               \/ OwnIndex(c)
    BY <1>0, <1>3, AsideOf, AsideKeeps
  <1>4. CASE \E c \in TaskCalls :
               \/ ClearDir(c) \/ Pack(c) \/ Describe(c) \/ AddEntry(c) \/ CutTask(c)
               \/ ReadGallery(c) \/ DeleteEntry(c) \/ OpenGallery(c) \/ WriteGallery(c)
    BY <1>0, <1>4, ClearKeeps, PackKeeps, DescribeKeeps, AddKeeps, CutKeeps, ReadKeeps, WriteKeeps
  <1> QED  BY <1>1, <1>2, <1>3, <1>4 DEF TasksNext

LEMMA StepGallery ==
    ASSUME TasksTypeOK, GalleryInv, [TasksNext]_taskVars PROVE GalleryInv'
  BY StepLists, StepYamls, StepCopies DEF GalleryInv

\* For any number of tasks, entries and requests at once, what the gallery lists
\* has a task.yaml that an import takes, unless an export of it is under way or was
\* cut, its task went meanwhile, or the task's own task.yaml had been refused.
THEOREM EntriesStayImportable == TasksSpec => []EntriesCanBeImported
  <1>1. GalleryInv => EntriesCanBeImported
    BY DEF GalleryInv, ListsGood, EntriesCanBeImported, Listed, Importable, Exporting, Copying,
           NoDirs
  <1>2. TasksSpec => []GalleryInv
    BY InitTypes, InitGallery, StepTypes, StepGallery, PTL DEF TasksSpec
  <1> QED  BY <1>1, <1>2, PTL

-----------------------------------------------------------------------------
(* Tasks stay whole. *)

\* A copy without an index, which is one that add or export made, has no files.
BareCopies == \A d \in Dirs : dir[d] # NoDir /\ dir[d].index = NoIndex => ~ dir[d].extra

LEMMA InitBare == TasksInit => BareCopies
  <1> SUFFICES ASSUME TasksInit, NEW d \in Dirs, dir[d] # NoDir PROVE dir[d].index # NoIndex
    BY DEF BareCopies
  <1>1. PICK old \in {{}} \cup {{t} : t \in Tasks}, title \in Titles :
            dir = [b \in Dirs |->
                   IF b[1] \in old /\ b[2] = title
                   THEN Directory(NewIndex(b[1], title), "good", FALSE)
                   ELSE NoDir]
    BY DEF TasksInit
  <1>2. d[1] \in old /\ dir[d] = Directory(NewIndex(d[1], title), "good", FALSE)
    BY <1>1
  <1>3. NewIndex(d[1], title) \in Indexes
    BY <1>2, NewIndexIs
  <1> QED  BY <1>2, <1>3, TasksAssumption DEF Directory

LEMMA StepBare ==
    ASSUME TasksTypeOK, BareCopies, [TasksNext]_taskVars PROVE BareCopies'
  <1>1. ASSUME dir' = dir PROVE BareCopies'
    BY <1>1 DEF BareCopies
  <1>2. ASSUME NEW k \in Dirs, NEW new, dir' = [dir EXCEPT ![k] = new],
               new = NoDir \/ new.index # NoIndex \/ ~ new.extra
        PROVE  BareCopies'
    BY <1>2 DEF BareCopies, TasksTypeOK
  <1>3. ASSUME NEW c \in TaskCalls, ClearDir(c) PROVE BareCopies'
    <2>1. work[c].read.dir \in Dirs
      BY <1>3, AtExport DEF ClearDir
    <2> QED  BY <1>1, <1>2, <1>3, <2>1 DEF ClearDir
  <1>4. ASSUME NEW c \in TaskCalls, Pack(c) PROVE BareCopies'
    <2>1. work[c].read.dir \in Dirs
      BY <1>4, AtExport DEF Pack
    <2>2. Copy(work[c].on).index # NoIndex
      BY <1>4 DEF Pack, Copy, Directory, Exists
    <2> HIDE DEF Copy
    <2> QED  BY <1>2, <1>4, <2>1, <2>2 DEF Pack
  <1>5. ~ WithYaml.extra
    BY DEF WithYaml, Directory
  <1>6. ASSUME NEW c \in TaskCalls, Describe(c) PROVE BareCopies'
    <2>1. PICK k : k = work[c].read.dir
      OBVIOUS
    <2>2. k \in Dirs
      BY <1>6, <2>1, AtExport DEF Describe
    <2>3. dir' = [dir EXCEPT ![k] = Described(dir[k])]
      BY <1>6, <2>1 DEF Describe, Described
    <2>4. dir[k] \in Directories \cup {NoDir}
      BY <2>2 DEF TasksTypeOK
    <2>5. Described(dir[k]).index # NoIndex \/ ~ Described(dir[k]).extra
      BY <2>2, <2>4, DescribedIs DEF BareCopies
    <2> QED  BY <1>2, <2>2, <2>3, <2>5
  <1>7. ASSUME NEW c \in TaskCalls, AddEntry(c) PROVE BareCopies'
    <2>1. PICK id \in Added, title \in Titles : dir' = [dir EXCEPT ![<<id, title>>] = WithYaml]
      BY <1>7 DEF AddEntry
    <2>2. <<id, title>> \in Dirs
      BY DEF Dirs
    <2> QED  BY <1>2, <1>5, <2>1, <2>2
  <1>8. ASSUME NEW c \in TaskCalls,
               \/ CreateTask(c) \/ OpenYaml(c) \/ WriteYaml(c) \/ CopyZip(c) \/ Mount(c)
               \/ EditTask(c) \/ PutYaml(c) \/ ReadIndex(c) \/ StoreIndex(c)
               \/ UpdateTask(c) \/ StoreUpdate(c) \/ UploadFiles(c) \/ PutFiles(c)
               \/ ExportTask(c) \/ ImportTask(c) \/ Unpack(c) \/ ReadCopied(c) \/ TearIndex(c)
               \/ OwnIndex(c)
        PROVE  BareCopies'
    BY <1>1, <1>8, AsideOf DEF Aside
  <1>9. ASSUME NEW c \in TaskCalls,
               \/ ReadGallery(c) \/ DeleteEntry(c) \/ OpenGallery(c) \/ WriteGallery(c)
               \/ CutTask(c)
        PROVE  BareCopies'
    BY <1>1, <1>9 DEF ReadGallery, DeleteEntry, OpenGallery, WriteGallery, CutTask
  <1>10. CASE DeleteTasks(Tasks) \/ \E t \in Tasks : DeleteFiles(t) \/ DeleteTasks({t})
    BY <1>1, <1>10 DEF DeleteTasks, DeleteFiles
  <1>11. CASE UNCHANGED taskVars
    BY <1>1, <1>11 DEF taskVars
  <1> QED  BY <1>3, <1>4, <1>6, <1>7, <1>8, <1>9, <1>10, <1>11 DEF TasksNext

\* An id not in use has no task, and nothing is under way on it.
TasksKnown ==
    /\ \A t \in Tasks : Exists(t) \/ t \in extra => t \in known
    /\ \A c \in TaskCalls : work[c].step \in OnTask => work[c].on \in known

LEMMA InitTasksKnown == TasksInit => TasksKnown
  BY DEF TasksInit, TasksKnown, Exists, NoTaskCall, Work, OnTask

LEMMA KnownFollows ==
    ASSUME TasksTypeOK, TasksKnown, known \subseteq known',
           NEW c \in TaskCalls, NEW w, Sets(c, w), w.step \in OnTask => w.on \in known',
           \A t \in Tasks : (Exists(t)' => Exists(t) \/ t \in known')
                           /\ (t \in extra' => t \in extra \/ t \in known')
    PROVE  TasksKnown'
  <1>1. \A b \in TaskCalls : work'[b].step \in OnTask => work'[b].on \in known'
    BY DEF TasksTypeOK, TasksKnown, Sets
  <1> QED  BY <1>1 DEF TasksKnown

LEMMA StepTasksKnown ==
    ASSUME TasksTypeOK, TasksKnown, [TasksNext]_taskVars PROVE TasksKnown'
  <1>1. CASE UNCHANGED taskVars
    BY <1>1 DEF taskVars, taskDirs, TasksKnown, Exists
  <1>2. ASSUME NEW S \in SUBSET Tasks, DeleteTasks(S) \/ \E t \in Tasks : DeleteFiles(t)
        PROVE  TasksKnown'
    <2>1. \A t \in Tasks : Exists(t)' => Exists(t)
      BY <1>2 DEF DeleteTasks, DeleteFiles, Exists
    <2> QED  BY <1>2, <2>1 DEF DeleteTasks, DeleteFiles, TasksKnown
  <1>3. ASSUME NEW c \in TaskCalls, NEW t \in Tasks, NEW title, NEW m, AddTask(t, title, m),
               extra' = extra, NEW w, Ask(c, w), w.step \in OnTask => w.on = t
        PROVE  TasksKnown'
    <2>1. \A s \in Tasks : Exists(s)' => Exists(s) \/ s \in known'
      BY <1>3 DEF AddTask, Exists, TasksTypeOK
    <2> QED  BY <1>3, <2>1, AskSets, KnownFollows DEF AddTask
  <1>4. ASSUME NEW c \in TaskCalls, CreateTask(c) \/ ImportTask(c) PROVE TasksKnown'
    <2>1. \E t \in Tasks : \E title, m : \E w :
              AddTask(t, title, m) /\ Ask(c, w) /\ (w.step \in OnTask => w.on = t)
      <3>1. NoTaskCall.step \notin OnTask
        BY DEF NoTaskCall, Work, OnTask
      <3>2. \A step, s, r : Work(step, s, r).on = s
        BY DEF Work
      <3> HIDE DEF NoTaskCall, Work
      <3>3. ASSUME CreateTask(c)
            PROVE  \E t \in Tasks : \E title, m :
                      /\ AddTask(t, title, m)
                      /\ Ask(c, NoTaskCall) \/ \E step, r : Ask(c, Work(step, t, r))
        BY <3>3 DEF CreateTask
      <3>4. ASSUME ImportTask(c)
            PROVE  \E t \in Tasks : \E title, m :
                      AddTask(t, title, m) /\ \E step, r : Ask(c, Work(step, t, r))
        BY <3>4 DEF ImportTask
      <3> QED  BY <1>4, <3>1, <3>2, <3>3, <3>4
    <2>2. extra' = extra
      BY <1>4 DEF CreateTask, ImportTask
    <2> QED  BY <1>3, <2>1, <2>2
  <1>5. ASSUME NEW c \in TaskCalls, NEW step, NEW t, NEW r, t \in known \/ step \notin OnTask,
               Ask(c, Work(step, t, r)), index' = index, extra' = extra, known \subseteq known'
        PROVE  TasksKnown'
    <2>1. Work(step, t, r).step = step /\ Work(step, t, r).on = t
      BY DEF Work
    <2> HIDE DEF Work
    <2> QED  BY <1>5, <2>1, AskSets, KnownFollows DEF Exists
  <1>6. ASSUME NEW c \in TaskCalls,
               EditTask(c) \/ UpdateTask(c) \/ UploadFiles(c) \/ ExportTask(c)
        PROVE  TasksKnown'
    <2>1. PICK t \in Tasks : Exists(t) /\ \E step, r : Ask(c, Work(step, t, r))
      BY <1>6 DEF EditTask, UpdateTask, UploadFiles, ExportTask
    <2>2. t \in known
      BY <2>1 DEF TasksKnown
    <2>3. index' = index /\ extra' = extra /\ known' = known
      BY <1>6 DEF EditTask, UpdateTask, UploadFiles, ExportTask, taskDirs
    <2> QED  BY <1>5, <2>1, <2>2, <2>3
  <1>7. ASSUME NEW c \in TaskCalls, AddEntry(c) \/ DeleteEntry(c) PROVE TasksKnown'
    <2>1. \E t, r, step : step \in {"list", "open"} /\ Ask(c, Work(step, t, r))
      BY <1>7, Zenon DEF AddEntry, DeleteEntry
    <2>2. index' = index /\ extra' = extra /\ known \subseteq known'
      BY <1>7 DEF AddEntry, DeleteEntry, taskDirs
    <2> QED  BY <1>5, <2>1, <2>2 DEF OnTask
  <1>8. ASSUME NEW c \in TaskCalls, known' = known, work[c].step \in OnTask,
               NEW w, Sets(c, w), w.step \in OnTask => w.on = work[c].on,
               \A t \in Tasks : t # work[c].on => index'[t] \in {index[t], NoIndex},
               extra' \subseteq extra \cup {work[c].on}
        PROVE  TasksKnown'
    <2>1. work[c].on \in known
      BY <1>8 DEF TasksKnown
    <2>2. \A t \in Tasks : Exists(t)' => Exists(t) \/ t \in known
      BY <1>8, <2>1 DEF Exists
    <2> QED  BY <1>8, <2>1, <2>2, KnownFollows
  <1>9. ASSUME NEW c \in TaskCalls,
               \/ OpenYaml(c) \/ WriteYaml(c) \/ CopyZip(c) \/ Mount(c) \/ PutYaml(c)
               \/ ReadIndex(c) \/ StoreIndex(c) \/ StoreUpdate(c) \/ PutFiles(c) \/ ClearDir(c)
               \/ Pack(c) \/ Describe(c) \/ Unpack(c) \/ ReadCopied(c) \/ TearIndex(c)
               \/ OwnIndex(c)
        PROVE  TasksKnown'
    <2>1. work[c].step \in OnTask
      BY <1>9, StepsOf DEF OnTask
    <2>2. \E w : Sets(c, w) /\ (w.step \in OnTask => w.on = work[c].on)
      <3>1. NoTaskCall.step \notin OnTask
        BY DEF NoTaskCall, Work, OnTask
      <3>2. \A step, s, r : Work(step, s, r).on = s
        BY DEF Work
      <3>3. Answer(c) \/ \E step : Then(c, step) \/ \E r : Knows(c, step, r)
        BY <1>9, NextOf
      <3> HIDE DEF NoTaskCall, Work
      <3> QED  BY <3>1, <3>2, <3>3, AnswerSets, ThenSets, KnowsSets
    <2>3. \A t \in Tasks : t # work[c].on => index'[t] \in {index[t], NoIndex}
      <3>1. CASE \/ OpenYaml(c) \/ WriteYaml(c) \/ PutYaml(c) \/ ReadIndex(c) \/ PutFiles(c)
                 \/ ClearDir(c) \/ Pack(c) \/ Describe(c) \/ ReadCopied(c)
        BY <3>1 DEF OpenYaml, WriteYaml, PutYaml, ReadIndex, PutFiles, ClearDir, Pack, Describe,
                    ReadCopied, taskDirs
      <3>2. CASE CopyZip(c)
        BY <3>2 DEF CopyZip, TasksTypeOK
      <3>3. CASE Unpack(c)
        BY <3>3 DEF Unpack, TasksTypeOK
      <3>4. ASSUME NEW i, Stores(work[c].on, i)
            PROVE  \A t \in Tasks : t # work[c].on => index'[t] \in {index[t], NoIndex}
        BY <3>4 DEF Stores, TasksTypeOK
      <3>5. CASE Mount(c) \/ StoreIndex(c) \/ StoreUpdate(c) \/ TearIndex(c) \/ OwnIndex(c)
        BY <3>4, <3>5 DEF Mount, StoreIndex, StoreWith, StoreUpdate, TearIndex, OwnIndex
      <3> QED  BY <1>9, <3>1, <3>2, <3>3, <3>5
    <2>4. extra' \subseteq extra \cup {work[c].on} /\ known' = known
      <3>1. CASE CopyZip(c) \/ PutFiles(c) \/ Unpack(c)
        BY <3>1 DEF CopyZip, PutFiles, Unpack
      <3>2. CASE ~ (CopyZip(c) \/ PutFiles(c) \/ Unpack(c))
        <4>1. extra' = extra /\ known' = known
          BY <1>9, <3>2
             DEF OpenYaml, WriteYaml, Mount, PutYaml, ReadIndex, StoreIndex, StoreWith, StoreUpdate,
                 ClearDir, Pack, Describe, ReadCopied, TearIndex, OwnIndex, taskDirs
        <4> QED  BY <4>1
      <3> QED  BY <3>1, <3>2
    <2> QED  BY <1>8, <2>1, <2>2, <2>3, <2>4
  <1>10. ASSUME NEW c \in TaskCalls,
               \/ ReadGallery(c) \/ OpenGallery(c) \/ WriteGallery(c) \/ CutTask(c)
        PROVE  TasksKnown'
    <2>1. \E w : Sets(c, w) /\ w.step \notin OnTask
      <3>1. NoTaskCall.step \notin OnTask
        BY DEF NoTaskCall, Work, OnTask
      <3>2. \A t, r : Work("open", t, r).step \notin OnTask /\ Work("write", t, r).step \notin OnTask
        BY DEF Work, OnTask
      <3>3. Answer(c) \/ Then(c, "write") \/ \E r : Knows(c, "open", r)
        BY <1>10 DEF ReadGallery, OpenGallery, WriteGallery, CutTask
      <3> HIDE DEF NoTaskCall, Work
      <3> QED  BY <3>1, <3>2, <3>3, AnswerSets, ThenSets, KnowsSets
    <2>2. index' = index /\ extra' = extra /\ known' = known
      BY <1>10 DEF ReadGallery, OpenGallery, WriteGallery, CutTask, taskDirs
    <2> QED  BY <2>1, <2>2, KnownFollows DEF Exists
  <1> QED  BY <1>1, <1>2, <1>4, <1>6, <1>7, <1>9, <1>10 DEF TasksNext

\* A request that has the id of its task to write, or its file_mounts.
Owning(w)   == w.step \in {"own", "tear", "fill"}
Bringing(w) == w.step = "mount" \/ (w.step = "fill" /\ w.read.mounts # "no")

\* Some request has that to write on task t.
DueId(t)    == \E c \in TaskCalls : work[c].on = t /\ Owning(work[c])
DueFiles(t) == \E c \in TaskCalls : work[c].on = t /\ Bringing(work[c])

LEMMA DueStays ==
    ASSUME TasksTypeOK, NEW c \in TaskCalls, NEW w, Sets(c, w), NEW t
    PROVE  /\ DueId(t) /\ ~ (Owning(work[c]) /\ work[c].on = t) => DueId(t)'
           /\ DueFiles(t) /\ ~ (Bringing(work[c]) /\ work[c].on = t) => DueFiles(t)'
  <1>1. \A d \in TaskCalls : d # c => work'[d] = work[d]
    BY DEF Sets, TasksTypeOK
  <1>2. ASSUME DueId(t), ~ (Owning(work[c]) /\ work[c].on = t) PROVE DueId(t)'
    BY <1>1, <1>2 DEF DueId, Owning
  <1>3. ASSUME DueFiles(t), ~ (Bringing(work[c]) /\ work[c].on = t) PROVE DueFiles(t)'
    BY <1>1, <1>3 DEF DueFiles, Bringing
  <1> QED  BY <1>2, <1>3

LEMMA DueNow ==
    ASSUME TasksTypeOK, NEW c \in TaskCalls, NEW w, Sets(c, w)
    PROVE  /\ Owning(w) => DueId(w.on)'
           /\ Bringing(w) => DueFiles(w.on)'
  <1>1. work'[c] = w
    BY DEF Sets, TasksTypeOK
  <1> QED  BY <1>1 DEF DueId, DueFiles, Owning, Bringing

\* A task that does not go by its own id will, or was cut before it could.
GoesByOwnId(t) == Exists(t) => index[t].id = t \/ t \in foreign \/ DueId(t)
OwnIds         == \A t \in Tasks : GoesByOwnId(t)

\* The same for files and file_mounts.
BringsFiles(t) ==
    Exists(t) /\ t \in extra => index[t].mounts # "no" \/ t \in loose \/ DueFiles(t)
FilesBrought   == \A t \in Tasks : BringsFiles(t)

\* Request c touches no task but k.
Touches(c, k) ==
    /\ \E w : Sets(c, w)
    /\ \A t \in Tasks : t # k =>
          /\ index'[t] = index[t] /\ (t \in extra' => t \in extra)
          /\ (t \in foreign => t \in foreign') /\ (t \in loose => t \in loose')
    /\ Owning(work[c]) \/ Bringing(work[c]) => work[c].on = k

LEMMA OthersGoOn ==
    ASSUME TasksTypeOK, NEW c \in TaskCalls, NEW k, Touches(c, k), NEW t \in Tasks, t # k
    PROVE  (GoesByOwnId(t) => GoesByOwnId(t)') /\ (BringsFiles(t) => BringsFiles(t)')
  <1>1. PICK w : Sets(c, w)
    BY DEF Touches
  <1>2. DueId(t) => DueId(t)'
    BY <1>1, DueStays DEF Touches
  <1>3. DueFiles(t) => DueFiles(t)'
    BY <1>1, DueStays DEF Touches
  <1> QED  BY <1>2, <1>3 DEF Touches, GoesByOwnId, BringsFiles, Exists

\* A step on the task k of request c.
LEMMA OneStep ==
    ASSUME TasksTypeOK, OwnIds, FilesBrought, NEW c \in TaskCalls, NEW k, Touches(c, k),
           k \in Tasks => GoesByOwnId(k)' /\ BringsFiles(k)'
    PROVE  (OwnIds /\ FilesBrought)'
  BY OthersGoOn DEF OwnIds, FilesBrought

\* A request that starts has nothing to write.
LEMMA AskedNothing ==
    ASSUME NEW c, work[c] = NoTaskCall PROVE ~ Owning(work[c]) /\ ~ Bringing(work[c])
  BY DEF Owning, Bringing, NoTaskCall, Work

\* A step that writes no index, brings no file and is the last of none.
LEMMA QuietStep ==
    ASSUME TasksTypeOK, OwnIds, FilesBrought, NEW c \in TaskCalls,
           \/ OpenYaml(c) \/ WriteYaml(c) \/ EditTask(c) \/ PutYaml(c) \/ ReadIndex(c)
           \/ UpdateTask(c) \/ UploadFiles(c) \/ ExportTask(c) \/ ClearDir(c) \/ Pack(c)
           \/ Describe(c) \/ AddEntry(c) \/ ReadGallery(c) \/ DeleteEntry(c) \/ OpenGallery(c)
           \/ WriteGallery(c)
    PROVE  (OwnIds /\ FilesBrought)'
  <1>1. \/ Answer(c) \/ \E w : Ask(c, w) \/ \E step : Then(c, step) \/ \E r : Knows(c, step, r)
    BY DEF OpenYaml, WriteYaml, EditTask, PutYaml, ReadIndex, UpdateTask, UploadFiles, ExportTask,
           ClearDir, Pack, Describe, AddEntry, ReadGallery, DeleteEntry, OpenGallery, WriteGallery
  <1>2. ~ Owning(work[c]) /\ ~ Bringing(work[c])
    BY StepsOf DEF Owning, Bringing
  <1>3. UNCHANGED <<index, extra, foreign, loose>>
    BY DEF OpenYaml, WriteYaml, EditTask, PutYaml, ReadIndex, UpdateTask, UploadFiles, ExportTask,
           ClearDir, Pack, Describe, AddEntry, ReadGallery, DeleteEntry, OpenGallery,
           WriteGallery, taskDirs
  <1>4. \A k : Touches(c, k)
    BY <1>1, <1>2, <1>3, SetsSome DEF Touches
  <1>5. \A t : \E k : t # k
    <2>1. \A t : t # 0 \/ t # 1
      OBVIOUS
    <2> QED  BY <2>1
  <1> QED  BY <1>4, <1>5, OthersGoOn DEF OwnIds, FilesBrought

LEMMA AddStep ==
    ASSUME TasksTypeOK, TasksKnown, OwnIds, FilesBrought, NEW c \in TaskCalls,
           CreateTask(c) \/ ImportTask(c)
    PROVE  (OwnIds /\ FilesBrought)'
  <1>1. PICK t \in Tasks : \E title, m, w : AddTask(t, title, m) /\ Ask(c, w)
    BY DEF CreateTask, ImportTask
  <1>2. UNCHANGED <<extra, foreign, loose>>
    BY DEF CreateTask, ImportTask
  <1>3. Touches(c, t)
    <2>1. \A s \in Tasks : s # t => index'[s] = index[s]
      BY <1>1 DEF AddTask
    <2>2. ~ Owning(work[c]) /\ ~ Bringing(work[c])
      BY <1>1, AskedNothing DEF Ask
    <2> QED  BY <1>1, <1>2, <2>1, <2>2, SetsSome DEF Touches
  <1>4. GoesByOwnId(t)'
    BY <1>1 DEF AddTask, Index, GoesByOwnId, TasksTypeOK
  <1>5. BringsFiles(t)'
    BY <1>1, <1>2 DEF AddTask, TasksKnown, BringsFiles
  <1> QED  BY <1>3, <1>4, <1>5, OneStep

\* A step that keeps ids.
LEMMA IdKept ==
    ASSUME TasksTypeOK, OwnIds, NEW c \in TaskCalls, NEW w, Sets(c, w), NEW k \in Tasks,
           foreign' = foreign, ~ Owning(work[c]),
           Exists(k)' => Exists(k) /\ index'[k].id = index[k].id
    PROVE  GoesByOwnId(k)'
  <1>1. DueId(k) => DueId(k)'
    BY DueStays
  <1> QED  BY <1>1 DEF OwnIds, GoesByOwnId

LEMMA StoresIs ==
    ASSUME TasksTypeOK, NEW k \in Tasks, NEW i, Stores(k, i)
    PROVE  /\ \A t \in Tasks : t # k => index'[t] = index[t]
           /\ Exists(k)' => Exists(k) /\ index'[k] = i
  BY DEF Stores, Exists, TasksTypeOK

\* A write of an index with m, by a request that is about to write no other:
\* what it loses is known.
LEMMA FilesKept ==
    ASSUME TasksTypeOK, FilesBrought, NEW c \in TaskCalls, NEW w, Sets(c, w), NEW k \in Tasks,
           NEW i, Stores(k, i), Loses(k, i.mounts), extra' = extra,
           Bringing(work[c]) => i.mounts # "no"
    PROVE  BringsFiles(k)'
  <1> SUFFICES ASSUME Exists(k)', k \in extra', k \notin loose', i.mounts = "no"
               PROVE  DueFiles(k)'
    BY StoresIs DEF BringsFiles
  <1>1. Exists(k) /\ k \in extra /\ k \notin loose /\ index[k].mounts = "no"
    BY StoresIs DEF Loses
  <1>2. DueFiles(k)
    BY <1>1 DEF FilesBrought, BringsFiles
  <1> QED  BY <1>2, DueStays

LEMMA FilesStep ==
    ASSUME TasksTypeOK, OwnIds, FilesBrought, NEW c \in TaskCalls, CopyZip(c) \/ PutFiles(c)
    PROVE  (OwnIds /\ FilesBrought)'
  <1>1. PICK k : k = work[c].on
    OBVIOUS
  <1>2. k \in Tasks /\ ~ Owning(work[c]) /\ ~ Bringing(work[c])
    BY <1>1, AtTask DEF CopyZip, PutFiles, OnTask, Does, Owning, Bringing
  <1>3. Answer(c) \/ Then(c, "mount")
    BY DEF CopyZip, PutFiles
  <1>4. PICK w : Sets(c, w) /\ (Then(c, "mount") => w.step = "mount" /\ w.on = k)
    <2>1. CASE Then(c, "mount")
      <3>1. PICK w : w = Work("mount", k, work[c].read)
        OBVIOUS
      <3>2. Sets(c, w) /\ w.step = "mount" /\ w.on = k
        BY <1>1, <2>1, <3>1, ThenSets DEF Work
      <3> QED  BY <3>2
    <2>2. CASE ~ Then(c, "mount")
      BY <1>3, <2>2, AnswerSets
    <2> QED  BY <2>1, <2>2
  <1>5. Then(c, "mount") => DueFiles(k)'
    BY <1>4, DueNow DEF Bringing
  <1>6. CASE CopyZip(c)
    <2>1. /\ extra' \in {extra, extra \cup {k}} /\ loose' = loose
          /\ \/ UNCHANGED <<index, foreign>>
             \/ \E i : /\ index' = [index EXCEPT ![k] = i]
                       /\ foreign' = IF i.id = k THEN foreign ELSE foreign \cup {k}
      BY <1>1, <1>6 DEF CopyZip
    <2>2. /\ \A t \in Tasks : t # k => index'[t] = index[t] /\ (t \in extra' => t \in extra)
          /\ \A t \in foreign : t \in foreign'
      BY <2>1 DEF TasksTypeOK
    <2>3. Touches(c, k)
      BY <1>2, <1>4, <2>1, <2>2 DEF Touches
    <2>4. GoesByOwnId(k)'
      <3>1. CASE UNCHANGED <<index, foreign>>
        BY <1>2, <1>4, <3>1, IdKept DEF Exists
      <3>2. ASSUME NEW i, index' = [index EXCEPT ![k] = i],
                   foreign' = IF i.id = k THEN foreign ELSE foreign \cup {k}
            PROVE  GoesByOwnId(k)'
        BY <1>2, <3>2 DEF GoesByOwnId, TasksTypeOK
      <3> QED  BY <2>1, <3>1, <3>2
    <2>5. BringsFiles(k)'
      BY <1>5, <1>6 DEF CopyZip, BringsFiles
    <2> QED  BY <1>2, <2>3, <2>4, <2>5, OneStep
  <1>7. CASE PutFiles(c)
    <2>1. UNCHANGED <<index, foreign>> /\ (\A t \in Tasks \ {k} : t \in extra' => t \in extra)
             /\ (\A t \in loose : t \in loose')
      BY <1>1, <1>7 DEF PutFiles
    <2>2. Touches(c, k)
      BY <1>2, <1>4, <2>1 DEF Touches
    <2>3. GoesByOwnId(k)'
      BY <1>2, <1>4, <2>1, IdKept DEF Exists
    <2>4. BringsFiles(k)'
      <3>1. CASE Then(c, "mount")
        BY <1>5, <3>1 DEF BringsFiles
      <3>2. CASE ~ Then(c, "mount")
        BY <1>1, <1>7, <2>1, <3>2 DEF PutFiles, BringsFiles, Exists
      <3> QED  BY <3>1, <3>2
    <2> QED  BY <1>2, <2>2, <2>3, <2>4, OneStep
  <1> QED  BY <1>6, <1>7

LEMMA MountStep ==
    ASSUME TasksTypeOK, OwnIds, FilesBrought, NEW c \in TaskCalls, Mount(c)
    PROVE  (OwnIds /\ FilesBrought)'
  <1>1. PICK k : k = work[c].on
    OBVIOUS
  <1>2. k \in Tasks /\ ~ Owning(work[c])
    BY <1>1, AtTask DEF Mount, OnTask, Does, Owning
  <1>3. Sets(c, NoTaskCall)
    BY AnswerSets DEF Mount
  <1>4. PICK i : i = Index(index[k].id, index[k].title, "dir")
    OBVIOUS
  <1>5. Stores(k, i) /\ i.id = index[k].id /\ i.mounts = "dir"
    BY <1>1, <1>4 DEF Mount, Index
  <1>6. Touches(c, k)
    BY <1>1, <1>2, <1>3, <1>5, StoresIs DEF Mount, Touches
  <1>7. GoesByOwnId(k)'
    BY <1>2, <1>3, <1>5, StoresIs, IdKept DEF Mount
  <1>8. BringsFiles(k)'
    BY <1>2, <1>5, StoresIs DEF BringsFiles
  <1> QED  BY <1>2, <1>6, <1>7, <1>8, OneStep

LEMMA UpdateStep ==
    ASSUME TasksTypeOK, OwnIds, FilesBrought, NEW c \in TaskCalls, StoreUpdate(c)
    PROVE  (OwnIds /\ FilesBrought)'
  <1>1. PICK k : k = work[c].on
    OBVIOUS
  <1>2. k \in Tasks /\ ~ Owning(work[c]) /\ ~ Bringing(work[c])
    BY <1>1, AtTask DEF StoreUpdate, OnTask, Does, Owning, Bringing
  <1>3. Sets(c, NoTaskCall)
    BY AnswerSets DEF StoreUpdate
  <1>4. PICK title \in Titles, m \in Mounts :
            Stores(k, Index(index[k].id, title, m)) /\ Loses(k, m)
    BY <1>1 DEF StoreUpdate
  <1>5. PICK i : i = Index(index[k].id, title, m)
    OBVIOUS
  <1>6. Stores(k, i) /\ i.id = index[k].id /\ Loses(k, i.mounts)
    BY <1>4, <1>5 DEF Index
  <1>7. extra' = extra /\ foreign' = foreign /\ \A t \in loose : t \in loose'
    BY <1>4 DEF StoreUpdate, Loses
  <1>8. Touches(c, k)
    BY <1>2, <1>3, <1>6, <1>7, StoresIs DEF Touches
  <1>9. GoesByOwnId(k)'
    BY <1>2, <1>3, <1>6, <1>7, StoresIs, IdKept
  <1>10. BringsFiles(k)'
    BY <1>2, <1>3, <1>6, <1>7, FilesKept
  <1> QED  BY <1>2, <1>8, <1>9, <1>10, OneStep

LEMMA StoreStep ==
    ASSUME TasksTypeOK, OwnIds, FilesBrought, NEW c \in TaskCalls, StoreIndex(c)
    PROVE  (OwnIds /\ FilesBrought)'
  <1>1. PICK k : k = work[c].on
    OBVIOUS
  <1>2. k \in Tasks /\ ~ Owning(work[c]) /\ ~ Bringing(work[c])
    BY <1>1, AtTask DEF StoreIndex, StoreWith, OnTask, Does, Owning, Bringing
  <1>3. PICK w : Sets(c, w)
    BY SetsSome DEF StoreIndex, StoreWith
  <1>4. PICK title \in Titles : Stores(k, Index(work[c].read.id, title, work[c].read.mounts))
    BY <1>1 DEF StoreIndex, StoreWith
  <1>5. PICK i : i = Index(work[c].read.id, title, work[c].read.mounts)
    OBVIOUS
  <1>6. Stores(k, i) /\ i.id = work[c].read.id /\ i.mounts = work[c].read.mounts
    BY <1>4, <1>5 DEF Index
  <1>7. /\ extra' = extra /\ Loses(k, i.mounts)
        /\ foreign' = IF Exists(k) /\ index[k].id = k /\ work[c].read.id # k
                      THEN foreign \cup {k} ELSE foreign
    BY <1>1, <1>6 DEF StoreIndex, StoreWith
  <1>8. Touches(c, k)
    BY <1>2, <1>3, <1>6, <1>7, StoresIs DEF Loses, Touches
  <1>9. GoesByOwnId(k)'
    <2> SUFFICES ASSUME Exists(k)', k \notin foreign', ~ DueId(k)'
                 PROVE  index'[k].id = k
      BY DEF GoesByOwnId
    <2>1. Exists(k) /\ index'[k] = i
      BY <1>2, <1>6, StoresIs
    <2>2. k \notin foreign /\ (index[k].id = k => work[c].read.id = k)
      BY <1>7, <2>1
    <2>3. ~ DueId(k)
      BY <1>2, <1>3, DueStays
    <2>4. index[k].id = k
      BY <1>2, <2>1, <2>2, <2>3 DEF OwnIds, GoesByOwnId
    <2> QED  BY <1>6, <2>1, <2>2, <2>4
  <1>10. BringsFiles(k)'
    BY <1>2, <1>3, <1>6, <1>7, FilesKept
  <1> QED  BY <1>2, <1>8, <1>9, <1>10, OneStep

LEMMA UnpackStep ==
    ASSUME TasksTypeOK, BareCopies, OwnIds, FilesBrought, NEW c \in TaskCalls, Unpack(c)
    PROVE  (OwnIds /\ FilesBrought)'
  <1>1. PICK k : k = work[c].on
    OBVIOUS
  <1>2. PICK d : d = dir[work[c].read]
    OBVIOUS
  <1>3. k \in Tasks /\ ~ Owning(work[c]) /\ ~ Bringing(work[c]) /\ work[c].read \in Dirs
    BY <1>1, AtTask DEF Unpack, OnTask, Does, TasksTypeOK, WorkOK, Owning, Bringing
  <1>4. PICK w : Sets(c, w) /\ w.step = "own" /\ w.on = k
    <2>1. PICK w : w = Work("own", k, work[c].read)
      OBVIOUS
    <2>2. Sets(c, w) /\ w.step = "own" /\ w.on = k
      BY <1>1, <2>1, ThenSets DEF Unpack, Work
    <2> QED  BY <2>2
  <1>5. /\ d # NoDir /\ foreign' = foreign
        /\ index' = [index EXCEPT ![k] = IF d.index = NoIndex THEN @ ELSE d.index]
        /\ extra' = IF d.extra THEN extra \cup {k} ELSE extra
        /\ loose' = IF d.index # NoIndex /\ d.index.mounts = "no" /\ (d.extra \/ k \in extra)
                    THEN loose \cup {k} ELSE loose
    BY <1>1, <1>2 DEF Unpack
  <1>6. d.index = NoIndex => ~ d.extra
    BY <1>2, <1>3, <1>5 DEF BareCopies
  <1>7. \A t \in Tasks : t # k => index'[t] = index[t]
    BY <1>3, <1>5 DEF TasksTypeOK
  <1>8. Touches(c, k)
    BY <1>3, <1>4, <1>5, <1>7 DEF Touches
  <1>9. GoesByOwnId(k)'
    BY <1>4, DueNow DEF GoesByOwnId, Owning
  <1>10. BringsFiles(k)'
    <2>1. CASE d.index = NoIndex
      <3>1. index' = index /\ extra' = extra /\ loose' = loose
        BY <1>3, <1>5, <1>6, <2>1 DEF TasksTypeOK
      <3>2. DueFiles(k) => DueFiles(k)'
        BY <1>3, <1>4, DueStays
      <3> QED  BY <1>3, <3>1, <3>2 DEF FilesBrought, BringsFiles, Exists
    <2>2. CASE d.index # NoIndex
      <3>1. index'[k] = d.index
        BY <1>3, <1>5, <2>2 DEF TasksTypeOK
      <3>2. k \in extra' => d.index.mounts # "no" \/ k \in loose'
        BY <1>5, <2>2
      <3> QED  BY <3>1, <3>2 DEF BringsFiles
    <2> QED  BY <2>1, <2>2
  <1> QED  BY <1>3, <1>8, <1>9, <1>10, OneStep

LEMMA ReadStep ==
    ASSUME TasksTypeOK, OwnIds, FilesBrought, NEW c \in TaskCalls, ReadCopied(c)
    PROVE  (OwnIds /\ FilesBrought)'
  <1>1. PICK k : k = work[c].on
    OBVIOUS
  <1>2. k \in Tasks /\ ~ Bringing(work[c])
    BY <1>1, AtTask DEF ReadCopied, OnTask, Does, Bringing
  <1>3. PICK w : Sets(c, w) /\ (Exists(k) => Owning(w) /\ w.on = k)
    <2>1. CASE Exists(k)
      <3>1. PICK w : w = Work("tear", k, index[k])
        OBVIOUS
      <3>2. Sets(c, w) /\ w.step = "tear" /\ w.on = k
        BY <1>1, <2>1, <3>1, KnowsSets DEF ReadCopied, Work
      <3> QED  BY <3>2 DEF Owning
    <2>2. CASE ~ Exists(k)
      BY <1>1, <2>2, AnswerSets DEF ReadCopied
    <2> QED  BY <2>1, <2>2
  <1>4. UNCHANGED <<index, extra, foreign, loose>>
    BY DEF ReadCopied, taskDirs
  <1>5. Touches(c, k)
    BY <1>1, <1>3, <1>4 DEF Touches
  <1>6. GoesByOwnId(k)'
    BY <1>3, <1>4, DueNow DEF GoesByOwnId, Exists
  <1>7. DueFiles(k) => DueFiles(k)'
    BY <1>2, <1>3, DueStays
  <1>8. BringsFiles(k)'
    BY <1>2, <1>4, <1>7 DEF FilesBrought, BringsFiles, Exists
  <1> QED  BY <1>2, <1>5, <1>6, <1>8, OneStep

LEMMA TearStep ==
    ASSUME TasksTypeOK, OwnIds, FilesBrought, NEW c \in TaskCalls, TearIndex(c)
    PROVE  (OwnIds /\ FilesBrought)'
  <1>1. PICK k : k = work[c].on
    OBVIOUS
  <1>2. k \in Tasks /\ ~ Bringing(work[c])
    BY <1>1, AtTask DEF TearIndex, OnTask, Does, Bringing
  <1>3. PICK w : w = Work("fill", k, work[c].read)
    OBVIOUS
  <1>4. Sets(c, w) /\ w.step = "fill" /\ w.on = k /\ w.read = work[c].read
    BY <1>1, <1>3, ThenSets DEF TearIndex, Work
  <1>5. PICK i : Stores(k, i) /\ i.mounts = "no"
    BY <1>1 DEF TearIndex, Index
  <1>6. UNCHANGED <<extra, foreign>> /\ Loses(k, work[c].read.mounts)
    BY <1>1 DEF TearIndex
  <1>7. Touches(c, k)
    BY <1>1, <1>2, <1>4, <1>5, <1>6, StoresIs DEF Loses, Touches
  <1>8. GoesByOwnId(k)'
    BY <1>4, DueNow DEF GoesByOwnId, Owning
  <1>9. BringsFiles(k)'
    <2>1. CASE work[c].read.mounts # "no"
      BY <1>4, <2>1, DueNow DEF BringsFiles, Bringing
    <2>2. CASE work[c].read.mounts = "no"
      BY <1>2, <1>4, <1>5, <1>6, <2>2, FilesKept
    <2> QED  BY <2>1, <2>2
  <1> QED  BY <1>2, <1>7, <1>8, <1>9, OneStep

LEMMA OwnStep ==
    ASSUME TasksTypeOK, OwnIds, FilesBrought, NEW c \in TaskCalls, OwnIndex(c)
    PROVE  (OwnIds /\ FilesBrought)'
  <1>1. PICK k : k = work[c].on
    OBVIOUS
  <1>2. k \in Tasks /\ (Bringing(work[c]) => work[c].read.mounts # "no")
    BY <1>1, AtTask DEF OwnIndex, OnTask, Does, Bringing
  <1>3. Sets(c, NoTaskCall)
    BY AnswerSets DEF OwnIndex
  <1>4. PICK i : i = Index(k, work[c].read.title, work[c].read.mounts)
    OBVIOUS
  <1>5. Stores(k, i) /\ i.id = k /\ i.mounts = work[c].read.mounts
    BY <1>1, <1>4 DEF OwnIndex, Index
  <1>6. extra' = extra /\ foreign' = foreign \ {k} /\ Loses(k, i.mounts)
    BY <1>1, <1>5 DEF OwnIndex
  <1>7. Touches(c, k)
    BY <1>1, <1>2, <1>3, <1>5, <1>6, StoresIs DEF Loses, Touches
  <1>8. GoesByOwnId(k)'
    BY <1>2, <1>5, StoresIs DEF GoesByOwnId
  <1>9. BringsFiles(k)'
    BY <1>2, <1>3, <1>5, <1>6, FilesKept
  <1> QED  BY <1>2, <1>7, <1>8, <1>9, OneStep

LEMMA CutStep ==
    ASSUME TasksTypeOK, OwnIds, FilesBrought, NEW c \in TaskCalls, CutTask(c)
    PROVE  (OwnIds /\ FilesBrought)'
  <1>1. PICK k : k = work[c].on
    OBVIOUS
  <1>2. Sets(c, NoTaskCall)
    BY AnswerSets DEF CutTask
  <1>3. UNCHANGED <<index, extra>>
    BY DEF CutTask, taskDirs
  <1>4. /\ \A t \in loose : t \in loose'
        /\ \A t \in foreign : t \in foreign'
        /\ Owning(work[c]) => k \in foreign'
        /\ Bringing(work[c]) => k \in loose'
    BY <1>1 DEF CutTask, Owning, Bringing, Does
  <1>5. Touches(c, k)
    BY <1>1, <1>2, <1>3, <1>4 DEF Touches
  <1>6. ASSUME k \in Tasks PROVE GoesByOwnId(k)'
    <2>1. ~ Owning(work[c]) /\ DueId(k) => DueId(k)'
      BY <1>2, DueStays
    <2> QED  BY <1>3, <1>4, <1>6, <2>1 DEF OwnIds, GoesByOwnId, Exists
  <1>7. ASSUME k \in Tasks PROVE BringsFiles(k)'
    <2>1. ~ Bringing(work[c]) /\ DueFiles(k) => DueFiles(k)'
      BY <1>2, DueStays
    <2> QED  BY <1>3, <1>4, <1>7, <2>1 DEF FilesBrought, BringsFiles, Exists
  <1> QED  BY <1>5, <1>6, <1>7, OneStep

LEMMA DeleteStep ==
    ASSUME TasksTypeOK, OwnIds, FilesBrought, NEW S \in SUBSET Tasks,
           DeleteTasks(S) \/ \E t \in Tasks : DeleteFiles(t)
    PROVE  (OwnIds /\ FilesBrought)'
  <1>1. UNCHANGED <<work, foreign, loose>> /\ extra' \subseteq extra
    BY DEF DeleteTasks, DeleteFiles
  <1>2. \A t \in Tasks : Exists(t)' => Exists(t) /\ index'[t] = index[t]
    BY DEF DeleteTasks, DeleteFiles, Exists
  <1>3. \A t : (DueId(t) => DueId(t)') /\ (DueFiles(t) => DueFiles(t)')
    BY <1>1 DEF DueId, DueFiles, Owning, Bringing
  <1> QED  BY <1>1, <1>2, <1>3 DEF OwnIds, FilesBrought, GoesByOwnId, BringsFiles

\* The inductive invariant.
TasksInv == BareCopies /\ TasksKnown /\ OwnIds /\ FilesBrought

LEMMA InitTasksInv == TasksInit => TasksInv
  <1> SUFFICES ASSUME TasksInit PROVE OwnIds /\ FilesBrought
    BY InitBare, InitTasksKnown DEF TasksInv
  <1>1. extra = {}
    BY DEF TasksInit
  <1>2. \A t \in Tasks : Exists(t) => index[t].id = t
    BY DEF TasksInit, Exists, NewIndex, Index
  <1> QED  BY <1>1, <1>2 DEF OwnIds, FilesBrought, GoesByOwnId, BringsFiles

LEMMA StepTasksInv ==
    ASSUME TasksTypeOK, TasksInv, [TasksNext]_taskVars PROVE TasksInv'
  <1> SUFFICES (OwnIds /\ FilesBrought)'
    BY StepBare, StepTasksKnown DEF TasksInv
  <1> USE DEF TasksInv
  <1>1. CASE UNCHANGED taskVars
    <2>1. UNCHANGED <<index, extra, foreign, loose, work>>
      BY <1>1 DEF taskVars, taskDirs
    <2> QED  BY <2>1 DEF OwnIds, FilesBrought, GoesByOwnId, BringsFiles, Exists, DueId, DueFiles,
                         Owning, Bringing
  <1>2. CASE DeleteTasks(Tasks) \/ \E t \in Tasks : DeleteFiles(t) \/ DeleteTasks({t})
    BY <1>2, DeleteStep
  <1>3. CASE \E c \in TaskCalls :
               \/ OpenYaml(c) \/ WriteYaml(c) \/ EditTask(c) \/ PutYaml(c) \/ ReadIndex(c)
               \/ UpdateTask(c) \/ UploadFiles(c) \/ ExportTask(c) \/ ClearDir(c) \/ Pack(c)
               \/ Describe(c) \/ AddEntry(c) \/ ReadGallery(c) \/ DeleteEntry(c)
               \/ OpenGallery(c) \/ WriteGallery(c)
    BY <1>3, QuietStep
  <1>4. CASE \E c \in TaskCalls :
               \/ CreateTask(c) \/ ImportTask(c) \/ CopyZip(c) \/ PutFiles(c) \/ Mount(c)
               \/ StoreUpdate(c) \/ StoreIndex(c) \/ Unpack(c) \/ ReadCopied(c)
               \/ TearIndex(c) \/ OwnIndex(c) \/ CutTask(c)
    BY <1>4, AddStep, FilesStep, MountStep, UpdateStep, StoreStep, UnpackStep, ReadStep, TearStep,
       OwnStep, CutStep
  <1> QED  BY <1>1, <1>2, <1>3, <1>4 DEF TasksNext

\* For any number of tasks and requests at once, a task on which nothing is under
\* way goes by its own id and says so when it has files, but after one of the
\* lost or cut writes that the histories name, the copy of such a task, or a zip
\* with an index of its own.
THEOREM TasksStayWhole == TasksSpec => []TasksAreWhole
  <1>1. TasksTypeOK /\ TasksInv => TasksAreWhole
    <2> SUFFICES ASSUME TasksInv, NEW t \in Tasks, Exists(t), Idle(t)
                 PROVE  /\ index[t].id = t \/ t \in foreign
                        /\ t \in extra => index[t].mounts # "no" \/ t \in loose
      BY DEF TasksAreWhole
    <2>1. ~ DueId(t) /\ ~ DueFiles(t)
      BY AskedNothing DEF DueId, DueFiles, Idle
    <2> QED  BY <2>1 DEF TasksInv, OwnIds, FilesBrought, GoesByOwnId, BringsFiles
  <1>2. TasksSpec => [](TasksTypeOK /\ TasksInv)
    BY InitTypes, InitTasksInv, StepTypes, StepTasksInv, PTL DEF TasksSpec
  <1> QED  BY <1>1, <1>2, PTL
=============================================================================
