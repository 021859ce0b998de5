\* Two goroutines set the limit at once.
CONSTANTS
    s1 = s1  s2 = s2  c1 = c1  c2 = c2
    Setters <- TwoSetters
    Listeners <- TwoListeners
    Values <- OneToFour
    Unset = Unset
SPECIFICATION Spec
INVARIANTS LastNoticeIsCurrent
