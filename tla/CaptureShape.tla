------------------------------- MODULE CaptureShape -------------------------------
(***************************************************************************)
(* What a verified capture may be (capture.py: _LineRules): after the       *)
(* header, frames; generations 1, 2, 3 ... of which one is open at a time;  *)
(* one footer, outside any generation, and nothing after it.               *)
(***************************************************************************)
EXTENDS Naturals

CONSTANT MaxFrames    \* frames_per_session

VARIABLES open,         \* a generation is open
          generations,  \* last_generation
          frames,       \* the frames taken
          footer        \* its status, "none" before it

shape == <<open, generations, frames, footer>>

Empty == open = FALSE /\ generations = 0 /\ frames = 0 /\ footer = "none"

\* _take, of a frame: a diagnostic anywhere, an observation in a generation.
Frame ==
    /\ footer = "none"
    /\ frames < MaxFrames
    /\ frames' = frames + 1
    /\ \/ UNCHANGED <<open, generations>>
       \/ ~open /\ open' = TRUE /\ generations' = generations + 1
       \/ open /\ open' = FALSE /\ UNCHANGED generations
    /\ UNCHANGED footer

\* _footer_fault, and the footer taken.
Close ==
    /\ footer = "none"
    /\ ~open
    /\ footer' \in {"COMPLETE", "FAILED"}
    /\ UNCHANGED <<open, generations, frames>>

Shape == Empty /\ [][Frame \/ Close]_shape

=============================================================================
