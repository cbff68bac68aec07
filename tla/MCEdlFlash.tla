------------------------------ MODULE MCEdlFlash ------------------------------
(* A manifest with a copy of the partition table for the last sectors. *)
EXTENDS EdlFlash
CONSTANTS boot_img, gpt_img

To(i, a, x) == [img |-> i, at |-> a, expr |-> x, placeholder |-> FALSE]
MCSet ==
  [readable |-> TRUE, programs |-> <<To(gpt_img, "gpt", FALSE), To(boot_img, "data", FALSE), To(gpt_img, "end", TRUE)>>,
   erases |-> <<"data">>, patch |-> "good"]
MCPlans == {[kind |-> "batch", sets |-> <<MCSet>>]}
MCDisks == {[i \in Images |-> "raw"]}

==============================================================================
