\* Two users and one slide, and what the docstring of update_slide says.
SPECIFICATION Spec

CONSTANTS
    Users = {u1, u2}
    Admins = {u1}
    Slides = {s1}
    Nobody = Nobody
    MaxVersions = 2

PROPERTY EditsKeepWhatTheyReplace
