---------------------------- MODULE MCVideoBadge ----------------------------
\* Two videos and two spots for their badges: the videos may overlap.
EXTENDS VideoBadge

CONSTANTS v, w, left, right

=============================================================================
