----------------------------- MODULE MCVideoMinutes -----------------------------
(* Seven frames in three minutes, so that minutes of two frames fall short; one *)
(* or two vehicles on a line; plans that turn at the start of a minute, inside  *)
(* one, twice inside one, and onto an unfit profile.                            *)
EXTENDS VideoMinutes

MCDetection(kind, place) == [kind |-> kind, place |-> place]
MCSpots == {MCDetection("car", 0), MCDetection("car", 1), MCDetection("car", 6)}

MCScenes ==
    {[detections |-> <<>>, flow |-> TRUE]}
    \cup {[detections |-> <<d>>, flow |-> TRUE] : d \in MCSpots}
    \cup {[detections |-> <<MCDetection("bus", 0)>>, flow |-> FALSE],
          [detections |-> <<MCDetection("car", 1), MCDetection("car", 0)>>, flow |-> TRUE]}

MCSegment(start, end, profile) == [start |-> start, end |-> end, profile |-> profile]
MCPlans ==
    {NoPlan,
     <<MCSegment(1, 3, "north"), MCSegment(3, Open, "south")>>,
     <<MCSegment(1, 2, "north"), MCSegment(2, Open, "south")>>,
     <<MCSegment(1, 4, "north"), MCSegment(4, 5, "south"), MCSegment(5, Open, "north")>>,
     <<MCSegment(1, 3, "north"), MCSegment(3, Open, "unfit")>>,
     <<MCSegment(1, 3, "north"), MCSegment(4, Open, "south")>>}
=============================================================================
