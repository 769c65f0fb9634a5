CONSTANTS
    Threads = {t1, t2}
    Frames = {a, b, c}
    Sizes = {1, 2}
    capacity_bytes = 3
    max_entries = 2
    MaxPuts = 4
    Episodes = {0, 1, 2, 3}
    Broken = {3}
    max_episodes = 2
    MaxPrefetches = 2
SPECIFICATION Spec
SYMMETRY Symmetry
INVARIANTS
    WithinCapacity
