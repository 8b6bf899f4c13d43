----------------------------- MODULE ExecProofs -----------------------------
(***************************************************************************)
(* Proofs about Exec, for every depth of nesting and number of images: an  *)
(* exit unwinds one call, and the starter finds itself as it was.          *)
(***************************************************************************)
EXTENDS Exec, TLAPS

\* The calls on the kernel stack name each other: what a call has saved is
\* its starter, the call below it.  Images are numbered as they are loaded,
\* so a younger call runs a younger image.
Chained ==
  /\ flow = "init" <=> frames = <<>>
  /\ \A n \in DOMAIN frames : frames[n].image <= loaded
  /\ \A m, n \in DOMAIN frames : m < n => frames[m].image < frames[n].image
  /\ \A n \in DOMAIN frames :
       frames[n].prev = IF n = 1 THEN 0 ELSE frames[n - 1].image
  /\ exec_cur = IF frames = <<>> THEN 0 ELSE frames[Len(frames)].image

\* With every backup made, the innermost program is in memory and each call
\* holds the image of its starter.
Saved ==
  ~unsaved_any =>
    /\ \A n \in DOMAIN frames : n > 1 => frames[n].backup = frames[n - 1].image
    /\ frames # <<>> => user_mem = exec_cur

ExInv == /\ ExTypeOK /\ ExitUnwindsOneCall /\ Chained /\ Saved
         /\ StacksKept /\ RedirectionsEnd

\* Facts on the sequence of calls that the steps below use.
LEMMA FramesFacts ==
  ASSUME ExInv
  PROVE  /\ frames \in Seq(FrameT) /\ Len(frames) \in Nat /\ DOMAIN frames = 1 .. Len(frames)
         /\ \A n \in 1 .. Len(frames) : frames[n] \in FrameT
         /\ loaded \in 0 .. MaxImages /\ MaxImages \in Nat /\ MaxNest \in Nat
         /\ g_nest = Len(frames) /\ (frames = <<>> <=> Len(frames) = 0)
  BY ExecConstants DEF ExInv, ExTypeOK, ExitUnwindsOneCall

\* What the invariant needs of the calls, without naming the action.
LEMMA ExInvFrom ==
  ASSUME ExTypeOK', ExitUnwindsOneCall', Chained', Saved', StacksKept', RedirectionsEnd'
  PROVE  ExInv'
  BY DEF ExInv

-----------------------------------------------------------------------------
LEMMA ExInvInit == ExInit => ExInv
<1> SUFFICES ASSUME ExInit PROVE ExInv
  OBVIOUS
<1>1. /\ frames = <<>> /\ Len(frames) = 0 /\ DOMAIN frames = {} /\ frames \in Seq(FrameT)
      /\ g_nest = 0 /\ exec_cur = 0 /\ user_mem = 0 /\ loaded = 0
      /\ g_elf_jmp = [valid |-> FALSE, frame |-> 0]
      /\ stacks = [l \in 1 .. StackLevels |-> 0]
      /\ stdin_over = FALSE /\ capture = FALSE /\ flow = "init" /\ unsaved_any = FALSE
  BY DEF ExInit
<1>2. 0 \in 0 .. MaxImages /\ 0 <= MaxNest /\ 0 \in Nat
  BY ExecConstants
<1>3. ExTypeOK
  BY <1>1, <1>2 DEF ExTypeOK
<1>4. ExitUnwindsOneCall /\ Chained /\ Saved /\ StacksKept /\ RedirectionsEnd
  BY <1>1 DEF ExitUnwindsOneCall, Chained, Saved, StacksKept, RedirectionsEnd
<1> QED BY <1>3, <1>4 DEF ExInv

-----------------------------------------------------------------------------
(***************************************************************************)
(* elf_exec_argv that starts a program.                                    *)
(***************************************************************************)
LEMMA SpawnOkInv ==
  ASSUME ExInv, NEW in \in BOOLEAN, NEW out \in BOOLEAN, SpawnOk(in, out)
  PROVE  ExInv'
<1> DEFINE L == Len(frames)
           new(b) == [image |-> loaded + 1, backup |-> b, prev |-> exec_cur,
                      in |-> in, out |-> out]
<1>1. PICK b \in Backups :
        /\ frames' = Append(frames, new(b))
        /\ unsaved_any' = (unsaved_any \/ (Nested /\ b = NoBackup))
  BY DEF SpawnOk
<1>2. /\ g_nest' = g_nest + 1 /\ g_elf_jmp' = [valid |-> TRUE, frame |-> L + 1]
      /\ exec_cur' = loaded + 1 /\ user_mem' = loaded + 1 /\ loaded' = loaded + 1
      /\ stacks' = [stacks EXCEPT ![Level(g_nest + 1)] = loaded + 1]
      /\ stdin_over' = stdin_over \/ stdin_over' = (stdin_over \/ in)
      /\ capture' = (capture \/ out) /\ flow' = "user"
      /\ loaded < MaxImages /\ L < MaxNest
  BY DEF SpawnOk, CanExec
<1>3. /\ frames \in Seq(FrameT) /\ L \in Nat /\ DOMAIN frames = 1 .. L
      /\ \A n \in 1 .. L : frames[n] \in FrameT
      /\ loaded \in 0 .. MaxImages /\ MaxImages \in Nat /\ MaxNest \in Nat
      /\ g_nest = L /\ (frames = <<>> <=> L = 0)
  BY FramesFacts
<1>4. /\ exec_cur \in 0 .. MaxImages /\ user_mem \in 0 .. MaxImages
      /\ b \in {NoBackup, user_mem} /\ loaded + 1 \in Images /\ unsaved_any \in BOOLEAN
  BY <1>2, <1>3 DEF ExInv, ExTypeOK, Backups, Images
<1>5. new(b) \in FrameT
  BY <1>4, <1>3 DEF FrameT, Images
<1>6. /\ frames' \in Seq(FrameT) /\ Len(frames') = L + 1 /\ DOMAIN frames' = 1 .. (L + 1)
      /\ \A n \in 1 .. L : frames'[n] = frames[n]
      /\ frames'[L + 1] = new(b) /\ frames' # <<>>
  <2> HIDE DEF new
  <2> QED BY <1>1, <1>3, <1>5
<1>7. ExTypeOK'
  <2>1. stacks' \in [1 .. StackLevels -> 0 .. MaxImages]
    <3>1. loaded + 1 \in 0 .. MaxImages
      BY <1>2, <1>3
    <3> QED BY <1>2, <3>1 DEF ExInv, ExTypeOK
  <2>2. stdin_over' \in BOOLEAN /\ capture' \in BOOLEAN /\ unsaved_any' \in BOOLEAN
    <3>1. stdin_over \in BOOLEAN /\ capture \in BOOLEAN /\ unsaved_any \in BOOLEAN
      BY DEF ExInv, ExTypeOK
    <3> QED BY <1>1, <1>2, <3>1, Zenon
  <2>3. Len(frames') <= MaxNest
    BY <1>2, <1>3, <1>6
  <2>4. loaded' \in 0 .. MaxImages /\ exec_cur' \in 0 .. MaxImages
        /\ user_mem' \in 0 .. MaxImages /\ g_nest' \in Nat
        /\ g_elf_jmp' \in [valid : BOOLEAN, frame : Nat]
    BY <1>2, <1>3
  <2> QED BY <1>2, <1>6, <2>1, <2>2, <2>3, <2>4 DEF ExTypeOK
<1>8. ExitUnwindsOneCall'
  BY <1>2, <1>3, <1>6 DEF ExitUnwindsOneCall
<1>9. Chained'
  <2>a. L \in Nat /\ loaded \in Nat
    BY <1>3
  <2>b. \A n \in 1 .. L : frames[n].image <= loaded
    BY <1>3 DEF ExInv, Chained
  <2>c. \A m, n \in 1 .. L : m < n => frames[m].image < frames[n].image
    BY <1>3 DEF ExInv, Chained
  <2>d. \A n \in 1 .. L : frames[n].prev = IF n = 1 THEN 0 ELSE frames[n - 1].image
    BY <1>3 DEF ExInv, Chained
  <2>e. exec_cur = IF L = 0 THEN 0 ELSE frames[L].image
    BY <1>3 DEF ExInv, Chained
  <2> HIDE DEF L
  <2>0. /\ L \in Nat /\ loaded \in Nat
        /\ \A n \in 1 .. L : frames[n].image <= loaded
        /\ \A m, n \in 1 .. L : m < n => frames[m].image < frames[n].image
        /\ \A n \in 1 .. L : frames[n].prev = IF n = 1 THEN 0 ELSE frames[n - 1].image
        /\ exec_cur = IF L = 0 THEN 0 ELSE frames[L].image
    BY <2>a, <2>b, <2>c, <2>d, <2>e
  <2>1. \A n \in 1 .. L : frames[n].image <= loaded /\ frames[n].image \in Nat
    <3> SUFFICES ASSUME NEW n \in 1 .. L PROVE frames[n].image \in Nat
      BY <2>0
    <3>1. frames[n].image \in Images
      BY <1>3 DEF FrameT
    <3> QED BY <3>1 DEF Images
  <2>2. ASSUME NEW n \in 1 .. (L + 1) PROVE frames'[n].image <= loaded'
    <3>1. CASE n = L + 1
      BY <1>2, <1>6, <2>0, <3>1
    <3>2. CASE n \in 1 .. L
      <4>1. frames'[n].image = frames[n].image
        BY <1>6, <3>2
      <4>2. /\ frames[n].image <= loaded /\ frames[n].image \in Nat
            /\ loaded \in Nat /\ loaded' = loaded + 1
        BY <1>2, <2>0, <2>1, <3>2
      <4> QED BY <4>1, <4>2
    <3> QED BY <2>0, <3>1, <3>2
  <2>3. \A m, n \in 1 .. (L + 1) : m < n => frames'[m].image < frames'[n].image
    <3> SUFFICES ASSUME NEW m \in 1 .. (L + 1), NEW n \in 1 .. (L + 1), m < n
                 PROVE  frames'[m].image < frames'[n].image
      OBVIOUS
    <3>1. m \in 1 .. L /\ (n \in 1 .. L \/ n = L + 1)
      BY <2>0
    <3>2. CASE n \in 1 .. L
      BY <1>6, <2>0, <3>1, <3>2
    <3>3. CASE n = L + 1
      <4>1. /\ frames[m].image <= loaded /\ frames[m].image \in Nat
            /\ loaded \in Nat
        BY <2>0, <2>1, <3>1
      <4> QED BY <1>6, <3>1, <3>3, <4>1
    <3> QED BY <3>1, <3>2, <3>3
  <2>4. \A n \in 1 .. (L + 1) :
          frames'[n].prev = IF n = 1 THEN 0 ELSE frames'[n - 1].image
    <3> SUFFICES ASSUME NEW n \in 1 .. (L + 1)
                 PROVE  frames'[n].prev = IF n = 1 THEN 0 ELSE frames'[n - 1].image
      OBVIOUS
    <3>1. CASE n = L + 1
      <4>1. n - 1 = L /\ (n = 1 <=> L = 0) /\ (L # 0 => L \in 1 .. L)
        BY <2>0, <3>1
      <4> QED BY <1>6, <2>0, <3>1, <4>1
    <3>2. CASE n # L + 1
      <4>1. n \in 1 .. L /\ (n # 1 => n - 1 \in 1 .. L)
        BY <2>0, <3>2
      <4>2. frames[n].prev = IF n = 1 THEN 0 ELSE frames[n - 1].image
        BY <2>0, <4>1
      <4> QED BY <1>6, <4>1, <4>2
    <3> QED BY <3>1, <3>2
  <2>5. exec_cur' = frames'[Len(frames')].image
    BY <1>2, <1>6
  <2> QED BY <1>2, <1>6, <2>2, <2>3, <2>4, <2>5 DEF Chained
<1>10. Saved'
  <2> SUFFICES ASSUME ~unsaved_any'
               PROVE  /\ \A n \in 1 .. (L + 1) : n > 1 =>
                           frames'[n].backup = frames'[n - 1].image
                      /\ user_mem' = exec_cur'
    BY <1>6 DEF Saved
  <2>1. ~unsaved_any /\ ~(Nested /\ b = NoBackup)
    BY <1>1
  <2>2. L >= 1 => b = frames[L].image
    BY <1>3, <1>4, <2>1 DEF ExInv, Saved, Chained, Nested
  <2>3. ASSUME NEW n \in 1 .. (L + 1), n > 1
        PROVE  frames'[n].backup = frames'[n - 1].image
    <3>1. CASE n = L + 1
      <4>1. n - 1 = L /\ L \in 1 .. L
        BY <1>3, <2>3, <3>1
      <4> QED BY <1>3, <1>6, <2>2, <3>1, <4>1
    <3>2. CASE n # L + 1
      <4>1. n \in 1 .. L /\ n - 1 \in 1 .. L
        BY <1>3, <2>3, <3>2
      <4> QED BY <1>3, <1>6, <2>1, <2>3, <4>1 DEF ExInv, Saved
    <3> QED BY <3>1, <3>2
  <2> QED BY <1>2, <2>3
<1>11. StacksKept'
  <2>1. StackLevels \in Nat \ {0} /\ stacks \in [1 .. StackLevels -> 0 .. MaxImages]
    BY ExecConstants DEF ExInv, ExTypeOK
  <2>2. L + 1 < StackLevels => stacks'[L + 1] = loaded + 1
    BY <1>2, <1>3, <2>1 DEF Level
  <2>3. \A n \in 1 .. L : n < StackLevels => stacks'[n] = stacks[n]
    BY <1>2, <1>3, <2>1 DEF Level
  <2> QED BY <1>3, <1>6, <2>2, <2>3 DEF ExInv, StacksKept
<1>12. RedirectionsEnd'
  <2>1. L + 1 \in 1 .. (L + 1) /\ \A n \in 1 .. L : n \in 1 .. (L + 1)
    BY <1>3
  <2>2. capture' => \E n \in DOMAIN frames' : frames'[n].out
    BY <1>2, <1>3, <1>6, <2>1 DEF ExInv, RedirectionsEnd
  <2>3. stdin_over' => \E n \in DOMAIN frames' : frames'[n].in
    <3>1. stdin_over' => stdin_over \/ in
      BY <1>2, Zenon
    <3>2. stdin_over => \E n \in 1 .. L : frames'[n].in
      BY <1>3, <1>6 DEF ExInv, RedirectionsEnd
    <3>3. in => frames'[L + 1].in
      BY <1>6
    <3> QED BY <1>6, <2>1, <3>1, <3>2, <3>3
  <2> QED BY <2>2, <2>3 DEF RedirectionsEnd
<1> QED BY <1>7, <1>8, <1>9, <1>10, <1>11, <1>12, ExInvFrom

\* The calls stay as they are: what is left of the invariant to show.
LEMMA SameCalls ==
  ASSUME ExInv, UNCHANGED <<frames, g_nest, g_elf_jmp, exec_cur, stacks>>,
         flow' = flow \/ (frames # <<>> /\ flow' = "gone"),
         loaded' \in loaded .. MaxImages, user_mem' \in 0 .. MaxImages,
         unsaved_any' \in BOOLEAN, stdin_over' \in BOOLEAN, capture' \in BOOLEAN,
         stdin_over' => stdin_over, capture' => capture,
         ~unsaved_any' => ~unsaved_any /\ (frames # <<>> => user_mem' = user_mem)
  PROVE  ExInv'
<1>1. /\ frames \in Seq(FrameT) /\ Len(frames) \in Nat /\ DOMAIN frames = 1 .. Len(frames)
      /\ \A n \in 1 .. Len(frames) : frames[n] \in FrameT
      /\ loaded \in 0 .. MaxImages /\ MaxImages \in Nat
  BY FramesFacts
<1>2. ExTypeOK'
  <2>1. loaded' \in 0 .. MaxImages
    BY <1>1
  <2> QED BY <2>1 DEF ExInv, ExTypeOK
<1>3. ExitUnwindsOneCall' /\ StacksKept'
  BY DEF ExInv, ExitUnwindsOneCall, StacksKept
<1>4. Chained'
  <2>1. ASSUME NEW n \in 1 .. Len(frames) PROVE frames[n].image <= loaded'
    <3>1. frames[n].image \in Images /\ frames[n].image <= loaded
      BY <1>1 DEF ExInv, Chained, FrameT
    <3>2. /\ loaded \in Nat /\ loaded' \in Nat /\ loaded <= loaded'
          /\ frames[n].image \in Nat
      BY <1>1, <3>1 DEF Images
    <3> HIDE <1>1
    <3> QED BY <3>1, <3>2
  <2>2. flow' = "init" <=> frames = <<>>
    BY DEF ExInv, Chained
  <2> QED BY <1>1, <2>1, <2>2 DEF ExInv, Chained
<1>5. Saved'
  BY DEF ExInv, Saved
<1>6. RedirectionsEnd'
  BY DEF ExInv, RedirectionsEnd
<1> QED BY <1>2, <1>3, <1>4, <1>5, <1>6, ExInvFrom

LEMMA SpawnFailsInv ==
  ASSUME ExInv, NEW partly \in BOOLEAN, NEW in \in BOOLEAN, NEW out \in BOOLEAN,
         SpawnFails(partly, in, out)
  PROVE  ExInv'
<1>1. PICK b \in Backups :
        /\ user_mem' = Restore(b, IF partly THEN loaded + 1 ELSE user_mem)
        /\ unsaved_any' = (unsaved_any \/ (Nested /\ b = NoBackup))
  BY DEF SpawnFails
<1>2. /\ loaded' = IF partly THEN loaded + 1 ELSE loaded
      /\ stdin_over' = (stdin_over /\ ~in) /\ capture' = (capture /\ ~out)
      /\ UNCHANGED <<frames, g_nest, g_elf_jmp, exec_cur, stacks, flow>>
      /\ loaded < MaxImages
  BY DEF SpawnFails, CanExec
<1>3. /\ Len(frames) \in Nat /\ loaded \in 0 .. MaxImages /\ MaxImages \in Nat
      /\ g_nest = Len(frames) /\ (frames = <<>> <=> Len(frames) = 0)
  BY FramesFacts
<1>4. /\ user_mem \in 0 .. MaxImages /\ unsaved_any \in BOOLEAN
      /\ stdin_over \in BOOLEAN /\ capture \in BOOLEAN
  BY DEF ExInv, ExTypeOK
<1>5. b \in {user_mem, NoBackup} /\ (~Nested => b = NoBackup)
  BY DEF Backups
<1>6. loaded' \in loaded .. MaxImages
  BY <1>2, <1>3
<1>7. user_mem' \in 0 .. MaxImages
  BY <1>1, <1>2, <1>3, <1>4, <1>5 DEF Restore
<1>8. /\ unsaved_any' \in BOOLEAN /\ stdin_over' \in BOOLEAN /\ capture' \in BOOLEAN
      /\ (stdin_over' => stdin_over) /\ (capture' => capture)
  BY <1>1, <1>2, <1>4, Zenon
<1>9. ASSUME ~unsaved_any' PROVE ~unsaved_any /\ (frames # <<>> => user_mem' = user_mem)
  <2>1. ~unsaved_any /\ ~(Nested /\ b = NoBackup)
    BY <1>1, <1>9
  <2>2. frames # <<>> => b = user_mem /\ b # NoBackup
    BY <1>3, <1>5, <2>1 DEF Nested
  <2> QED BY <1>1, <2>1, <2>2 DEF Restore
<1> QED BY <1>2, <1>6, <1>7, <1>8, <1>9, SameCalls

LEMMA LeaveUnarmedInv ==
  ASSUME ExInv, LeaveUnarmed
  PROVE  ExInv'
<1>1. /\ loaded \in 0 .. MaxImages /\ MaxImages \in Nat
  BY FramesFacts
<1>2. loaded' \in loaded .. MaxImages
  BY <1>1 DEF LeaveUnarmed
<1>3. frames # <<>> /\ flow' = "gone"
  BY DEF LeaveUnarmed, ExInv, Chained
<1>4. /\ user_mem' \in 0 .. MaxImages /\ unsaved_any' \in BOOLEAN
      /\ stdin_over' \in BOOLEAN /\ capture' \in BOOLEAN
  BY DEF LeaveUnarmed, ExInv, ExTypeOK
<1> QED BY <1>2, <1>3, <1>4, SameCalls DEF LeaveUnarmed

-----------------------------------------------------------------------------
(***************************************************************************)
(* The way back: the armed call is the innermost one.                      *)
(***************************************************************************)
LEMMA LeaveInv ==
  ASSUME ExInv, LeaveArmed
  PROVE  ExInv'
<1> DEFINE L == Len(frames)
<1>1. /\ frames \in Seq(FrameT) /\ L \in Nat /\ DOMAIN frames = 1 .. L
      /\ \A n \in 1 .. L : frames[n] \in FrameT
      /\ loaded \in 0 .. MaxImages /\ MaxImages \in Nat /\ MaxNest \in Nat
      /\ g_nest = L /\ (frames = <<>> <=> L = 0)
  BY FramesFacts
<1>2. L >= 1 /\ L \in 1 .. L /\ g_elf_jmp.frame = L /\ L - 1 \in Nat
  BY <1>1 DEF LeaveArmed, ExInv, ExitUnwindsOneCall
<1>3. /\ frames' = SubSeq(frames, 1, L - 1) /\ g_nest' = g_nest - 1
      /\ g_elf_jmp' = [g_elf_jmp EXCEPT !.valid = FALSE]
      /\ user_mem' = Restore(frames[L].backup, user_mem)
      /\ exec_cur' = frames[L].prev
      /\ stdin_over' = (stdin_over /\ ~frames[L].in)
      /\ capture' = (capture /\ ~frames[L].out)
      /\ flow' = (IF L = 1 THEN "init" ELSE "user")
      /\ UNCHANGED <<stacks, loaded, unsaved_any>>
  BY <1>2 DEF LeaveArmed, ReturnTo, Disarmed
<1>4. /\ frames' \in Seq(FrameT) /\ Len(frames') = L - 1 /\ DOMAIN frames' = 1 .. (L - 1)
      /\ \A n \in 1 .. (L - 1) : frames'[n] = frames[n] /\ n \in 1 .. L
      /\ (frames' = <<>> <=> L = 1)
  <2>1. L \in Nat /\ L - 1 \in Nat /\ L - 1 <= L
    BY <1>1, <1>2
  <2>2. /\ SubSeq(frames, 1, L - 1) \in Seq(FrameT)
        /\ Len(SubSeq(frames, 1, L - 1)) = L - 1
    BY <1>1, <2>1
  <2>3. \A n \in 1 .. (L - 1) : n \in 1 .. L
    BY <2>1
  <2>4. \A n \in 1 .. (L - 1) : SubSeq(frames, 1, L - 1)[n] = frames[n]
    BY <1>1, <2>1
  <2> QED BY <1>3, <2>1, <2>2, <2>3, <2>4
<1>5. frames[L] \in FrameT
  BY <1>1, <1>2
<1>6. ExTypeOK'
  <2>1. user_mem' \in 0 .. MaxImages /\ exec_cur' \in 0 .. MaxImages
    <3>1. /\ frames[L].backup = NoBackup \/ frames[L].backup \in 0 .. MaxImages
          /\ frames[L].prev \in 0 .. MaxImages
      <4>1. /\ frames[L].backup \in {NoBackup} \cup Images \cup {0}
            /\ frames[L].prev \in Images \cup {0}
        BY <1>5 DEF FrameT
      <4>2. \A i \in Images \cup {0} : i \in 0 .. MaxImages
        BY <1>1 DEF Images
      <4> QED BY <4>1, <4>2
    <3>2. user_mem \in 0 .. MaxImages
      BY DEF ExInv, ExTypeOK
    <3> QED BY <1>3, <3>1, <3>2 DEF Restore
  <2>2. stdin_over' \in BOOLEAN /\ capture' \in BOOLEAN
    <3>1. stdin_over \in BOOLEAN /\ capture \in BOOLEAN
      BY DEF ExInv, ExTypeOK
    <3> QED BY <1>3, <3>1, Zenon
  <2>3. g_elf_jmp' \in [valid : BOOLEAN, frame : Nat] /\ g_nest' \in Nat
    BY <1>1, <1>2, <1>3 DEF ExInv, ExTypeOK
  <2>4. Len(frames') <= MaxNest
    BY <1>1, <1>4 DEF ExInv, ExTypeOK
  <2> QED BY <1>3, <1>4, <2>1, <2>2, <2>3, <2>4 DEF ExInv, ExTypeOK
<1>7. ExitUnwindsOneCall'
  <2>1. ~g_elf_jmp'.valid
    BY <1>3 DEF ExInv, ExTypeOK
  <2> QED BY <1>1, <1>3, <1>4, <2>1 DEF ExitUnwindsOneCall
<1>8. Chained'
  <2>1. exec_cur' = IF L = 1 THEN 0 ELSE frames[L - 1].image
    BY <1>1, <1>2, <1>3 DEF ExInv, Chained
  <2>2. L # 1 => L - 1 \in 1 .. (L - 1)
    BY <1>1, <1>2
  <2>3. exec_cur' = IF frames' = <<>> THEN 0 ELSE frames'[Len(frames')].image
    BY <1>4, <2>1, <2>2
  <2>4. \A n \in 1 .. (L - 1) : n # 1 => n - 1 \in 1 .. (L - 1)
    BY <1>1
  <2>5. \A n \in DOMAIN frames' : frames'[n].prev = IF n = 1 THEN 0 ELSE frames'[n - 1].image
    BY <1>1, <1>4, <2>4 DEF ExInv, Chained
  <2>6. \A n \in DOMAIN frames' : frames'[n].image <= loaded'
    BY <1>1, <1>3, <1>4 DEF ExInv, Chained
  <2>7. \A m, n \in DOMAIN frames' : m < n => frames'[m].image < frames'[n].image
    BY <1>1, <1>4 DEF ExInv, Chained
  <2>8. flow' = "init" <=> frames' = <<>>
    BY <1>3, <1>4
  <2> QED BY <2>3, <2>5, <2>6, <2>7, <2>8 DEF Chained
<1>9. Saved'
  <2> SUFFICES ASSUME ~unsaved_any'
               PROVE  /\ \A n \in DOMAIN frames' : n > 1 =>
                           frames'[n].backup = frames'[n - 1].image
                      /\ frames' # <<>> => user_mem' = exec_cur'
    BY DEF Saved
  <2>1. \A n \in 1 .. L : n > 1 => frames[n].backup = frames[n - 1].image
    BY <1>1, <1>3 DEF ExInv, Saved
  <2>2. \A n \in 1 .. (L - 1) : n > 1 => n - 1 \in 1 .. (L - 1)
    BY <1>1
  <2>3. L # 1 => /\ L > 1 /\ L - 1 \in 1 .. L
                 /\ frames[L].backup = frames[L - 1].image
                 /\ frames[L - 1].image # NoBackup
                 /\ exec_cur' = frames[L - 1].image
    <3> SUFFICES ASSUME L # 1
                 PROVE  /\ L > 1 /\ L - 1 \in 1 .. L
                        /\ frames[L].backup = frames[L - 1].image
                        /\ frames[L - 1].image # NoBackup
                        /\ exec_cur' = frames[L - 1].image
      OBVIOUS
    <3>1. L > 1 /\ L - 1 \in 1 .. L
      BY <1>1, <1>2
    <3>2. frames[L - 1].image \in Images
      BY <1>1, <3>1 DEF FrameT
    <3>3. frames[L - 1].image # NoBackup
      BY <1>1, <3>2 DEF Images, NoBackup
    <3>4. frames[L].prev = frames[L - 1].image
      BY <1>1, <1>2 DEF ExInv, Chained
    <3> QED BY <1>2, <1>3, <2>1, <3>1, <3>3, <3>4
  <2>4. frames' # <<>> => user_mem' = exec_cur'
    BY <1>3, <1>4, <2>3 DEF Restore
  <2> QED BY <1>4, <2>1, <2>2, <2>4
<1>10. StacksKept'
  BY <1>1, <1>3, <1>4 DEF ExInv, StacksKept
<1>11. RedirectionsEnd'
  <2>1. \A n \in 1 .. L : n # L => n \in 1 .. (L - 1)
    <3>1. L \in Nat
      BY <1>1
    <3> HIDE DEF L
    <3> QED BY <3>1
  <2>2. capture' => \E n \in 1 .. L : frames[n].out /\ n # L
    BY <1>1, <1>3 DEF ExInv, RedirectionsEnd
  <2>3. stdin_over' => \E n \in 1 .. L : frames[n].in /\ n # L
    BY <1>1, <1>3 DEF ExInv, RedirectionsEnd
  <2> QED BY <1>4, <2>1, <2>2, <2>3 DEF RedirectionsEnd
<1> QED BY <1>6, <1>7, <1>8, <1>9, <1>10, <1>11, ExInvFrom

-----------------------------------------------------------------------------
(***************************************************************************)
(* elf_execve replaces the image of the innermost call and of no other.    *)
(***************************************************************************)
LEMMA ExecveInv ==
  ASSUME ExInv, Execve
  PROVE  ExInv'
<1> DEFINE L == Len(frames)
<1>1. /\ frames \in Seq(FrameT) /\ L \in Nat /\ DOMAIN frames = 1 .. L
      /\ \A n \in 1 .. L : frames[n] \in FrameT
      /\ loaded \in 0 .. MaxImages /\ MaxImages \in Nat /\ MaxNest \in Nat
      /\ g_nest = L /\ (frames = <<>> <=> L = 0)
  BY FramesFacts
<1>a. /\ \A n \in 1 .. L : n # L => n < L
      /\ \A n \in 1 .. L : n # 1 => n - 1 \in 1 .. L /\ n - 1 # L
      /\ \A m, n \in 1 .. L : m < n => m # L
  <2>1. L \in Nat
    BY <1>1
  <2> HIDE DEF L
  <2> QED BY <2>1
<1>b. \A n \in 1 .. L : frames[n].image \in Images /\ frames[n].image \in Nat
  <2> SUFFICES ASSUME NEW n \in 1 .. L
               PROVE  frames[n].image \in Images /\ frames[n].image \in Nat
    OBVIOUS
  <2>1. frames[n] \in FrameT
    BY <1>1
  <2>2. frames[n].image \in Images
    BY <2>1 DEF FrameT
  <2>3. Images \subseteq Nat
    BY <1>1 DEF Images
  <2> QED BY <2>2, <2>3
<1>c. /\ \A n \in 1 .. L : frames[n].image <= loaded
      /\ \A m, n \in 1 .. L : m < n => frames[m].image < frames[n].image
  BY <1>1 DEF ExInv, Chained
<1>2. /\ frames # <<>> /\ L >= 1 /\ L \in 1 .. L /\ loaded < MaxImages
      /\ loaded + 1 \in 1 .. MaxImages /\ loaded + 1 \in 0 .. MaxImages
  BY <1>1 DEF Execve, ExInv, Chained
<1>3. /\ frames' = [n \in DOMAIN frames |-> IF frames[n].image = exec_cur
                     THEN [frames[n] EXCEPT !.image = loaded + 1] ELSE frames[n]]
      /\ exec_cur' = loaded + 1 /\ user_mem' = loaded + 1 /\ loaded' = loaded + 1
      /\ stacks' = [stacks EXCEPT ![Level(L)] = loaded + 1]
      /\ UNCHANGED <<g_nest, g_elf_jmp, stdin_over, capture, flow, unsaved_any>>
  BY <1>1 DEF Execve
<1>4. exec_cur = frames[L].image
  BY <1>2 DEF ExInv, Chained
<1>5. \A n \in 1 .. L : n # L => frames[n].image # exec_cur
  <2> SUFFICES ASSUME NEW n \in 1 .. L, n # L PROVE frames[n].image # exec_cur
    OBVIOUS
  <2>1. n < L
    BY <1>a
  <2>2. frames[n].image < frames[L].image
    BY <1>2, <1>c, <2>1
  <2>3. frames[n].image \in Nat
    BY <1>b
  <2> QED BY <1>4, <2>2, <2>3
<1>6. /\ DOMAIN frames' = 1 .. L
      /\ frames'[L] = [frames[L] EXCEPT !.image = loaded + 1]
      /\ \A n \in 1 .. L : n # L => frames'[n] = frames[n]
  BY <1>1, <1>2, <1>3, <1>4, <1>5
<1>7. /\ frames'[L] \in FrameT /\ frames'[L].image = loaded + 1
      /\ \A n \in 1 .. L : /\ frames'[n].backup = frames[n].backup
                           /\ frames'[n].prev = frames[n].prev
                           /\ frames'[n].in = frames[n].in
                           /\ frames'[n].out = frames[n].out
  <2>1. frames[L] \in FrameT
    BY <1>1, <1>2
  <2>2. /\ frames'[L] \in FrameT /\ frames'[L].image = loaded + 1
        /\ frames'[L].backup = frames[L].backup /\ frames'[L].prev = frames[L].prev
        /\ frames'[L].in = frames[L].in /\ frames'[L].out = frames[L].out
    BY <1>2, <1>6, <2>1 DEF FrameT, Images
  <2> QED BY <1>6, <2>2
<1>8. frames' \in Seq(FrameT) /\ Len(frames') = L /\ frames' # <<>>
  <2>1. \A n \in 1 .. L : frames'[n] \in FrameT
    BY <1>1, <1>6, <1>7
  <2>2. frames' = [n \in 1 .. L |-> frames'[n]]
    BY <1>1, <1>3
  <2>3. frames' \in [1 .. L -> FrameT]
    BY <2>1, <2>2
  <2>4. frames' \in Seq(FrameT)
    BY <1>1, <2>3
  <2>5. Len(frames') = L
    BY <1>1, <1>6, <2>4
  <2> QED BY <1>1, <1>2, <2>4, <2>5
<1>9. ExTypeOK'
  <2>1. stacks' \in [1 .. StackLevels -> 0 .. MaxImages]
    BY <1>2, <1>3 DEF ExInv, ExTypeOK
  <2> QED BY <1>2, <1>3, <1>8, <2>1 DEF ExInv, ExTypeOK
<1>10. ExitUnwindsOneCall'
  BY <1>3, <1>8 DEF ExInv, ExitUnwindsOneCall
<1>11. /\ \A n \in 1 .. L : frames[n].image <= loaded /\ frames[n].image \in Nat
       /\ loaded \in Nat
  BY <1>1, <1>b, <1>c
<1>12. Chained'
  <2>1. \A n \in 1 .. L : frames'[n].image <= loaded'
    <3> SUFFICES ASSUME NEW n \in 1 .. L PROVE frames'[n].image <= loaded + 1
      BY <1>3
    <3>1. CASE n = L
      BY <1>1, <1>7, <3>1
    <3>2. CASE n # L
      <4>1. frames'[n].image = frames[n].image
        BY <1>6, <3>2
      <4>2. /\ frames[n].image <= loaded /\ frames[n].image \in Nat
            /\ loaded \in Nat
        BY <1>11
      <4> QED BY <4>1, <4>2
    <3> QED BY <3>1, <3>2
  <2>2. ASSUME NEW m \in 1 .. L, NEW n \in 1 .. L, m < n
        PROVE  frames'[m].image < frames'[n].image
    <3>1. m # L /\ frames'[m].image = frames[m].image
      BY <1>6, <1>a, <2>2
    <3>2. CASE n = L
      <4>1. /\ frames[m].image <= loaded /\ frames[m].image \in Nat
            /\ loaded \in Nat
        BY <1>11
      <4> QED BY <1>7, <3>1, <3>2, <4>1
    <3>3. CASE n # L
      BY <1>6, <1>c, <2>2, <3>1, <3>3
    <3> QED BY <3>2, <3>3
  <2>3. \A n \in 1 .. L : frames'[n].prev = IF n = 1 THEN 0 ELSE frames'[n - 1].image
    <3> SUFFICES ASSUME NEW n \in 1 .. L
                 PROVE  frames'[n].prev = IF n = 1 THEN 0 ELSE frames'[n - 1].image
      OBVIOUS
    <3>1. n # 1 => n - 1 \in 1 .. L /\ n - 1 # L
      BY <1>a
    <3>2. frames[n].prev = IF n = 1 THEN 0 ELSE frames[n - 1].image
      BY <1>1 DEF ExInv, Chained
    <3> QED BY <1>6, <1>7, <3>1, <3>2
  <2>4. exec_cur' = frames'[Len(frames')].image
    BY <1>3, <1>7, <1>8
  <2>5. flow' # "init"
    BY <1>2, <1>3 DEF ExInv, Chained
  <2> QED BY <1>6, <1>8, <2>1, <2>2, <2>3, <2>4, <2>5 DEF Chained
<1>13. Saved'
  <2>1. ASSUME ~unsaved_any, NEW n \in 1 .. L, n > 1
        PROVE  frames'[n].backup = frames'[n - 1].image
    <3>1. n - 1 \in 1 .. L /\ n - 1 # L
      BY <1>1, <2>1
    <3>2. frames[n].backup = frames[n - 1].image
      BY <1>1, <2>1 DEF ExInv, Saved
    <3> QED BY <1>6, <1>7, <3>1, <3>2
  <2> QED BY <1>3, <1>6, <2>1 DEF Saved
<1>14. StacksKept'
  <2>1. StackLevels \in Nat \ {0} /\ stacks \in [1 .. StackLevels -> 0 .. MaxImages]
    BY ExecConstants DEF ExInv, ExTypeOK
  <2>2. L < StackLevels => stacks'[L] = loaded + 1
    BY <1>1, <1>2, <1>3, <2>1 DEF Level
  <2>3. \A n \in 1 .. L : n # L /\ n < StackLevels => stacks'[n] = stacks[n]
    BY <1>1, <1>3, <2>1 DEF Level
  <2>4. \A n \in 1 .. L : n < StackLevels => stacks[n] = frames[n].image
    BY <1>1 DEF ExInv, StacksKept
  <2>5. ASSUME NEW n \in 1 .. L, n < StackLevels PROVE stacks'[n] = frames'[n].image
    <3>1. CASE n = L
      BY <1>7, <2>2, <2>5, <3>1
    <3>2. CASE n # L
      BY <1>6, <2>3, <2>4, <2>5, <3>2
    <3> QED BY <3>1, <3>2
  <2> QED BY <1>6, <2>5 DEF StacksKept
<1>15. RedirectionsEnd'
  BY <1>1, <1>3, <1>6, <1>7 DEF ExInv, RedirectionsEnd
<1> QED BY <1>9, <1>10, <1>12, <1>13, <1>14, <1>15, ExInvFrom

LEMMA ExInvInductive == ExInv /\ [ExNext]_exVars => ExInv'
<1> SUFFICES ASSUME ExInv, [ExNext]_exVars PROVE ExInv'
  OBVIOUS
<1>1. ASSUME NEW in \in BOOLEAN, NEW out \in BOOLEAN, SpawnOk(in, out) PROVE ExInv'
  BY <1>1, SpawnOkInv
<1>2. ASSUME NEW partly \in BOOLEAN, NEW in \in BOOLEAN, NEW out \in BOOLEAN,
             SpawnFails(partly, in, out)
      PROVE  ExInv'
  BY <1>2, SpawnFailsInv
<1>3. CASE LeaveArmed
  BY <1>3, LeaveInv
<1>4. CASE LeaveUnarmed
  BY <1>4, LeaveUnarmedInv
<1>5. CASE Execve
  BY <1>5, ExecveInv
<1>6. CASE UNCHANGED exVars
  BY <1>6 DEF exVars, ExInv, ExTypeOK, ExitUnwindsOneCall, Chained, Saved, StacksKept,
              RedirectionsEnd
<1> QED BY <1>1, <1>2, <1>3, <1>4, <1>5, <1>6 DEF ExNext

\* Types hold for every depth and number of images (kernel/elf.c).
THEOREM ExecTypes == ExSpec => []ExTypeOK
<1>1. ExInv => ExTypeOK
  BY DEF ExInv
<1> QED BY <1>1, ExInvInit, ExInvInductive, PTL DEF ExSpec

\* Whatever is spawned, fails, is replaced and exits in whatever nesting, the
\* program that runs is the current process and is in memory, if elf_exec_argv
\* could make its backups.
THEOREM ProgramsRunAsThemselves == ExSpec => []RunsAsItself
<1>1. ExInv => RunsAsItself
  BY DEF ExInv, Chained, Saved, RunsAsItself
<1> QED BY <1>1, ExInvInit, ExInvInductive, PTL DEF ExSpec

\* An armed g_elf_jmp names the innermost elf_exec_argv at every depth.
THEOREM ExitsUnwindOneCall == ExSpec => []ExitUnwindsOneCall
<1>1. ExInv => ExitUnwindsOneCall
  BY DEF ExInv
<1> QED BY <1>1, ExInvInit, ExInvInductive, PTL DEF ExSpec

\* Below the shared last area, user stacks survive the programs started from
\* above them, however many areas there are.
THEOREM StacksSurvive == ExSpec => []StacksKept
<1>1. ExInv => StacksKept
  BY DEF ExInv
<1> QED BY <1>1, ExInvInit, ExInvInductive, PTL DEF ExSpec

\* No redirection of SYS_SPAWN_R outlives the calls that asked for one.
THEOREM RedirectionsDoEnd == ExSpec => []RedirectionsEnd
<1>1. ExInv => RedirectionsEnd
  BY DEF ExInv
<1> QED BY <1>1, ExInvInit, ExInvInductive, PTL DEF ExSpec
=============================================================================
