CONSTANTS
    MainTask = main
    Services = {s1}
    Destinations = {1, 3}
    NsTags = {"c1", "c2"}
    TosTags = {"t1"}
SPECIFICATION MonitorSpec
PROPERTY AbortTransparent
CHECK_DEADLOCK FALSE
