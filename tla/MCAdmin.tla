------------------------------ MODULE MCAdmin ------------------------------
(* Two forms at a time, a lockout after two failures for two ticks, two rows of
   three kinds over a midnight. *)
EXTENDS AdminPages

Kinds ==
  {[cache_hit |-> "faq", used |-> TRUE, more |-> 2],
   [cache_hit |-> "text_cache", used |-> FALSE, more |-> 0],
   [cache_hit |-> "none", used |-> TRUE, more |-> 2]}
=============================================================================
