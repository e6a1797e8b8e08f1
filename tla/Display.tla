------------------------------ MODULE Display ------------------------------
(***************************************************************************)
(* Two presenters, one window: pvr2_render_frame draws the lists of the tile *)
(* accelerator, pvr2_present_framebuffer draws what the game wrote into video *)
(* memory (src/src/hal/pvr2_render.c).  They share the GL context, where the  *)
(* buffer bound to GL_ARRAY_BUFFER is global to both.  Both are followed by  *)
(* a swap when they drew.  Pixels, shaders, blending and depth are left out.  *)
(***************************************************************************)
EXTENDS Integers, Sequences

VARIABLES
  bound,    \* the buffer bound to GL_ARRAY_BUFFER: "vbo" or "quad"
  quad,     \* contents of g_fb_vbo: "none" before fb_init, "quad" or "geometry"
  window    \* what the last swap showed: "clear", "geometry" or "framebuffer"

displayVars == <<bound, quad, window>>

(* pvr2_render_init leaves its own vertex buffer bound. *)
DisplayInit ==
  bound = "vbo" /\ quad = "none" /\ window = "clear"

(* The lists pvr2_render_frame draws: opaque, punch-through, translucent. *)
Drawn(lists) == {l \in {0, 4, 2} : lists[l] # <<>>}

BindsNothing == bound  \* mutant: the geometry goes to whatever buffer is bound

BindsOwn == "vbo"

(* pvr2_render_frame and platform_swap_buffers: clears, binds its buffer, and *)
(* uploads into the bound buffer once for each list it draws.               *)
RenderFrame(lists) ==
  /\ bound' = BindsOwn
  /\ quad' = IF Drawn(lists) # {} /\ bound' = "quad" THEN "geometry" ELSE quad
  /\ window' = IF Drawn(lists) = {} THEN "clear" ELSE "geometry"

(* fb_init: the first call makes the quad's buffer and leaves it bound. *)
FbInit ==
  IF quad = "none" THEN quad' = "quad" /\ bound' = "quad" ELSE UNCHANGED <<quad, bound>>

(* pvr2_present_framebuffer on video memory that is blank or not: for a blank *)
(* one fb_init has run all the same, nothing is drawn and nothing swapped.   *)
Present(blank) ==
  /\ FbInit
  /\ window' = IF blank THEN window ELSE "framebuffer"
=============================================================================
