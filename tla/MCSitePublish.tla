--------------------------- MODULE MCSitePublish ----------------------------
(* Instances of module SitePublish for TLC. *)
EXTENDS SitePublish

\* Under the second version the first design of the second model does not fit its
\* clock; the first model's second design reaches the cap.
SomeRatios == << << <<30, 45>>, <<40, 20>> >>,
                 << <<40, 55>>, <<0, 25>> >>,
                 << <<40, 55>>, <<46, 26>> >> >>

\* The second model's <<0, 26>>, a mixture of the last two versions, passes for the
\* second, whose mean is 25; all its other mixtures are refused.
SomeMeans == << <<75, 60>>, <<90, 25>>, <<90, 72>> >>
=============================================================================
