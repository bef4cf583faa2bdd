---------------------------- MODULE H3Parameters ----------------------------
(***************************************************************************)
(* What the workflows of the video model ask of one generation: a number   *)
(* of frames on the grid of the model, a slot for each image that is sent  *)
(* along, and a prompt that names those images by their places.  All of it *)
(* is arithmetic and case distinction, so what is said here is proved, for *)
(* every duration and every number of images.                              *)
(***************************************************************************)
EXTENDS Integers, TLAPS

-----------------------------------------------------------------------------
(* Durations.  r is round(seconds * 24).                                     *)

MinFrames == 124
MaxFrames == 362

Raw(r) == IF r > 5 THEN r ELSE 5

\* _seconds_to_grid_frames; the % of Python is that of TLA+.
GridFrames(r) == Raw(r) + ((5 - (Raw(r) % 17)) % 17)

\* resolve_duration.
Accepted(r) == GridFrames(r) \in MinFrames..MaxFrames

LEMMA GridBounds ==
    ASSUME NEW r \in Int
    PROVE  /\ GridFrames(r) \in Int
           /\ GridFrames(r) % 17 = 5
           /\ Raw(r) \in Int /\ Raw(r) >= 5 /\ Raw(r) >= r
           /\ (Raw(r) = r \/ (r <= 5 /\ Raw(r) = 5))
           /\ Raw(r) <= GridFrames(r) /\ GridFrames(r) < Raw(r) + 17
<1>1. /\ Raw(r) \in Int /\ Raw(r) >= 5 /\ Raw(r) >= r
      /\ (Raw(r) = r \/ (r <= 5 /\ Raw(r) = 5))
    BY DEF Raw
<1> DEFINE d == (5 - (Raw(r) % 17)) % 17
<1>2. GridFrames(r) = Raw(r) + d
    BY DEF GridFrames
<1>3. d \in 0..16
    BY <1>1
<1>4. (Raw(r) + d) % 17 = 5
    BY <1>1
<1> HIDE DEF d
<1> QED
    BY <1>1, <1>2, <1>3, <1>4

\* The number of frames is on the grid 5, 22, 39, ... of the model, and is the
\* first such number that the shot fits in.
THEOREM GridIsLeast ==
    ASSUME NEW r \in Int
    PROVE  /\ GridFrames(r) % 17 = 5
           /\ GridFrames(r) >= r
           /\ \A g \in Int : g >= 5 /\ g >= r /\ g % 17 = 5 => GridFrames(r) <= g
<1>1. ASSUME NEW g \in Int, g >= 5, g >= r, g % 17 = 5
      PROVE  GridFrames(r) <= g
    <2>1. g >= Raw(r)
        BY <1>1 DEF Raw
    <2>2. GridFrames(r) % 17 = 5 /\ GridFrames(r) \in Int /\ GridFrames(r) < g + 17
        BY <2>1, GridBounds, <1>1
    <2> QED
        BY <1>1, <2>2
<1> QED
    BY <1>1, GridBounds

\* The durations accepted are those of 108 to 362 frames, 4.5 to 15.08 seconds:
\* the range of trained frames is tested after the shot was put on the grid, so
\* its lower end serves shots of up to 16 frames less.
THEOREM AcceptedRange ==
    ASSUME NEW r \in Int
    PROVE  Accepted(r) <=> r \in 108..362
<1> DEFINE g == GridFrames(r)
<1>1. /\ g \in Int /\ g % 17 = 5 /\ g >= 5
      /\ g >= r /\ (g < r + 17 \/ g < 22)
    BY GridBounds
<1>2. Accepted(r) <=> g \in 124..362
    BY DEF Accepted, MinFrames, MaxFrames
<1> HIDE DEF g
<1>3. PICK k \in Int : g = (17 * k) + 5
    <2>1. g = (17 * (g \div 17)) + (g % 17)
        BY <1>1
    <2>2. g \div 17 \in Int
        BY <1>1
    <2> QED
        BY <1>1, <2>1, <2>2
<1>4. g \in 124..362 <=> k \in 7..21
    BY <1>3
<1>5. r \in 108..362 <=> k \in 7..21
    <2>1. g >= r /\ (g < r + 17 \/ g < 22)
        BY <1>1
    <2> QED
        BY <1>3, <2>1
<1> QED
    BY <1>2, <1>4, <1>5

-----------------------------------------------------------------------------
(* Workflows.  cast is the number of characters of a shot, each of which has  *)
(* a reference image (the selector refuses the shot otherwise, and a shot     *)
(* without characters); env says that an environment image is approved,       *)
(* frame that the shot continues the one before it.                           *)

\* materialized_reference_slots
Slots == [pack |-> 4, flf |-> 0, one |-> 1, two |-> 2]

\* The workflow of generate_take, or "none" if it refuses the shot.
Workflow(cast, env, frame) ==
    IF env THEN IF 2 + (IF frame THEN 1 ELSE 0) + (cast - 1) <= Slots.pack THEN "pack" ELSE "none"
    ELSE IF frame THEN "flf"
    ELSE IF cast = 1 THEN "one"
    ELSE IF cast = 2 THEN "two" ELSE "none"

\* The images build_injections, or build_continuity_injections, puts in slots.
Bindings(cast, env, frame) ==
    IF env THEN cast + 1 + (IF frame THEN 1 ELSE 0)
    ELSE IF frame THEN 0 ELSE cast

\* No image of a shot that is not refused goes without a slot.
THEOREM EveryImageHasASlot ==
    ASSUME NEW cast \in Nat, cast >= 1, NEW env \in BOOLEAN, NEW frame \in BOOLEAN,
           Workflow(cast, env, frame) # "none"
    PROVE  Bindings(cast, env, frame) <= Slots[Workflow(cast, env, frame)]
BY DEF Workflow, Bindings, Slots

\* Approving an environment image never stops the first shot of a scene from
\* being generated, but it stops later ones of more than two characters, which
\* could be generated without it.
THEOREM EnvironmentTakesASlot ==
    ASSUME NEW cast \in Nat, cast >= 1
    PROVE  /\ Workflow(cast, FALSE, FALSE) # "none" => Workflow(cast, TRUE, FALSE) # "none"
           /\ Workflow(cast, FALSE, TRUE) # "none"
           /\ Workflow(cast, TRUE, TRUE) # "none" <=> cast <= 2
BY DEF Workflow, Slots

-----------------------------------------------------------------------------
(* Prompts.  A prompt tells which picture shows which character.  The pack    *)
(* holds the first character, the environment, the frame and then the other   *)
(* characters.                                                                *)

Picture(c, env, frame) ==
    IF ~env \/ c = 1 THEN c ELSE IF frame THEN c + 2 ELSE c + 1

\* The characters build defines; build_continuity_prompt defines none.
Defined(cast, env, frame) == {c \in 1..cast : env \/ ~frame}

\* The pictures a prompt names, by character.
Named(cast, env, frame) == [c \in Defined(cast, env, frame) |-> Picture(c, env, frame)]

\* No prompt that is built names the picture of the environment, 2, or of the
\* frame, 3, as that of a character, or names a picture that is not sent.
THEOREM PicturesAreCharacters ==
    ASSUME NEW cast \in Nat, NEW env \in BOOLEAN, NEW frame \in BOOLEAN,
           NEW c \in Defined(cast, env, frame)
    PROVE  /\ Picture(c, env, frame) \in 1..Bindings(cast, env, frame)
           /\ env => Picture(c, env, frame) # 2
           /\ env /\ frame => Picture(c, env, frame) # 3
           /\ \A b \in Defined(cast, env, frame) :
                 Picture(b, env, frame) = Picture(c, env, frame) => b = c
BY DEF Defined, Picture, Bindings

\* generate_take keeps a prompt for the versions of the shot and the plan, and
\* approving an environment image, or a frame that appears, changes neither.  The
\* prompt that was kept is that of the images now sent if nothing changed, or if
\* there is one character and both workflows take pictures, and not otherwise.
THEOREM KeptPrompt ==
    ASSUME NEW cast \in Nat, cast >= 1,
           NEW env \in BOOLEAN, NEW frame \in BOOLEAN,
           NEW env2 \in BOOLEAN, NEW frame2 \in BOOLEAN
    PROVE  Named(cast, env, frame) = Named(cast, env2, frame2) <=>
              \/ env = env2 /\ frame = frame2
              \/ cast = 1 /\ (env \/ ~frame) /\ (env2 \/ ~frame2)
<1> DEFINE D(e, f) == Defined(cast, e, f)
<1>1. ASSUME NEW e \in BOOLEAN, NEW f \in BOOLEAN
      PROVE  /\ DOMAIN Named(cast, e, f) = D(e, f)
             /\ \A c \in D(e, f) : Named(cast, e, f)[c] = Picture(c, e, f)
             /\ D(e, f) = IF e \/ ~f THEN 1..cast ELSE {}
             /\ 1 \in 1..cast /\ (cast # 1 => 2 \in 1..cast)
    BY DEF Named, Defined
<1>2. ASSUME Named(cast, env, frame) = Named(cast, env2, frame2)
      PROVE  \/ env = env2 /\ frame = frame2
             \/ cast = 1 /\ (env \/ ~frame) /\ (env2 \/ ~frame2)
    <2>1. D(env, frame) = D(env2, frame2)
        BY <1>1, <1>2
    <2>2. (env \/ ~frame) <=> (env2 \/ ~frame2)
        BY <1>1, <2>1
    <2>3. CASE ~(env \/ ~frame)
        BY <2>2, <2>3
    <2>4. CASE (env \/ ~frame) /\ cast # 1
        <3>1. Picture(2, env, frame) = Picture(2, env2, frame2)
            BY <1>1, <1>2, <2>2, <2>4
        <3> QED
            BY <3>1, <2>2, <2>4 DEF Picture
    <2> QED
        BY <2>2, <2>3, <2>4
<1>3. ASSUME cast = 1, env \/ ~frame, env2 \/ ~frame2
      PROVE  Named(cast, env, frame) = Named(cast, env2, frame2)
    <2>1. Defined(cast, env, frame) = {1} /\ Defined(cast, env2, frame2) = {1}
        BY <1>3 DEF Defined
    <2>2. Picture(1, env, frame) = 1 /\ Picture(1, env2, frame2) = 1
        BY DEF Picture
    <2> QED
        BY <2>1, <2>2 DEF Named
<1> QED
    BY <1>2, <1>3

=============================================================================
