------------------------------- MODULE SceneGraph -------------------------------
(***************************************************************************)
(* How a scene is written into a message and built again from one:         *)
(* SceneDescriptor::Pack and Unpack and the Pack, Unpack and GetType of    *)
(* every hitable, material and texture.  The numbers of a scene are the    *)
(* tokens of the text, in the order of the << and >> of the code.  A       *)
(* floating point number is the whole number of its decimal digits (sign,  *)
(* point and exponent are left out), and is rounded when it is written.    *)
(* Reading returns what was built and the place of the next token.  A      *)
(* hitable, material or texture is a record of what it packs, with the     *)
(* number GetType returns as its type.                                     *)
(***************************************************************************)
EXTENDS Integers, Sequences, SequencesExt

(* A variable that was never assigned: the text ended before its token.    *)
None == -1

(* What the factories return for a type they do not know.                  *)
Nullptr == [type |-> None]

-----------------------------------------------------------------------------
(* enum HitableType_t, without the triangle mesh (its Pack writes nothing)  *)
LIST == 1
BVH == 2
SPHERE == 3
RECTANGLES == {4, 5, 6}
FLIP_NORMALS == 7
BOX == 8
TRIANGLE == 9
TRANSLATE == 11
ROTATE_Y == 12

(* enum MaterialType_t                                                     *)
LAMBERTIAN == 1
METAL == 2
DIELECTRIC == 3
DIFUSE_LIGHT == 4

(* enum TextureType_t                                                      *)
CONSTANT_TEXTURE == 1
CHECKER_TEXTURE == 2
SCALED_TEXTURES == {3, 4, 5}

-----------------------------------------------------------------------------
(* operator<< of a floating point number: nothing in the program sets the   *)
(* precision of a stream, which begins as 6 significant digits.  Grain is   *)
(* the unit of the last digit that is written.                             *)
Precision == 6

RECURSIVE Grain(_)
Grain(x) == IF x < 10^Precision THEN 1 ELSE 10 * Grain(x \div 10)

Printed(x) == ((x + Grain(x) \div 2) \div Grain(x)) * Grain(x)

Floats(numbers) == [k \in DOMAIN numbers |-> Printed(numbers[k])]

(* Reading one token and one vector                                        *)
Token(t, i) == IF i <= Len(t) THEN t[i] ELSE None
Vec3(t, i) == <<Token(t, i), Token(t, i + 1), Token(t, i + 2)>>

Read(object, next) == [val |-> object, at |-> next]

-----------------------------------------------------------------------------
(* The type of a texture, and the texture                                  *)
RECURSIVE PackTexture(_)
PackTexture(x) ==
  <<x.type>> \o
  CASE x.type = CONSTANT_TEXTURE -> Floats(x.color)
    [] x.type = CHECKER_TEXTURE  -> PackTexture(x.odd) \o PackTexture(x.even)
    [] OTHER                     -> Floats(Append(x.color, x.scale))

RECURSIVE ConstructTexture(_, _)
UnpackTexture(t, i, type) ==
  LET odd  == ConstructTexture(t, i)
      even == ConstructTexture(t, odd.at)
  IN CASE type = CONSTANT_TEXTURE ->
            Read([type |-> type, color |-> Vec3(t, i)], i + 3)
       [] type = CHECKER_TEXTURE ->
            Read([type |-> type, odd |-> odd.val, even |-> even.val], even.at)
       [] type \in SCALED_TEXTURES ->
            Read([type |-> type, color |-> Vec3(t, i), scale |-> Token(t, i + 3)],
                 i + 4)

ConstructTexture(t, i) ==
  LET type == Token(t, i)
  IN  IF type \in {CONSTANT_TEXTURE, CHECKER_TEXTURE} \union SCALED_TEXTURES
      THEN UnpackTexture(t, i + 1, type)
      ELSE Read(Nullptr, i + 1)

(* The type of a material, and the material: its texture, and what the     *)
(* metals and the dielectrics have besides                                 *)
PackMaterial(m) ==
  <<m.type>> \o PackTexture(m.albedo)
    \o IF m.type \in {METAL, DIELECTRIC} THEN <<Printed(m.factor)>> ELSE <<>>

UnpackMaterial(t, i, type) ==
  LET under == ConstructTexture(t, i)
  IN  IF type \in {METAL, DIELECTRIC}
      THEN Read([type |-> type, albedo |-> under.val,
                 factor |-> Token(t, under.at)], under.at + 1)
      ELSE Read([type |-> type, albedo |-> under.val], under.at)

ConstructMaterial(t, i) ==
  LET type == Token(t, i)
  IN  IF type \in {LAMBERTIAN, METAL, DIELECTRIC, DIFUSE_LIGHT}
      THEN UnpackMaterial(t, i + 1, type)
      ELSE Read(Nullptr, i + 1)

-----------------------------------------------------------------------------
(* Spheres, rectangles and triangles: their shape, then their material.    *)
(* The three rectangles differ in the names of their five numbers only.    *)
SURFACES == {SPHERE, TRIANGLE} \union RECTANGLES

PackSurface(o) == Floats(o.shape) \o PackMaterial(o.material)

ShapeLength(type) ==
  CASE type = SPHERE         -> 4        \* center, radius
    [] type = TRIANGLE       -> 9        \* a, b, c
    [] type \in RECTANGLES   -> 5        \* two sides, k

UnpackSurface(t, i, type) ==
  LET n == ShapeLength(type)
      m == ConstructMaterial(t, i + n)
  IN  Read([type |-> type, shape |-> [k \in 1..n |-> Token(t, i + k - 1)],
            material |-> m.val], m.at)

-----------------------------------------------------------------------------
RECURSIVE PackHitable(_)
RECURSIVE ConstructHitable(_, _)

(* flipNormals, box, rotate_y and translate: one hitable, and numbers that *)
(* stand before it or after it                                             *)
TRANSFORMATIONS == {FLIP_NORMALS, BOX, ROTATE_Y, TRANSLATE}

PackTransformation(o) ==
  CASE o.type = FLIP_NORMALS -> PackHitable(o.ptr)
    [] o.type = BOX          -> Floats(o.pmin \o o.pmax) \o PackHitable(o.ptr)
    [] o.type = ROTATE_Y     -> PackHitable(o.ptr)
                                  \o Floats(<<o.sinTheta, o.cosTheta>>)
                                  \o <<o.hasbox>> \o Floats(o.bbox[1] \o o.bbox[2])
    [] o.type = TRANSLATE    -> Floats(o.offset) \o PackHitable(o.ptr)

UnpackTransformation(t, i, type) ==
  LET lead == CASE type = BOX       -> 6
                [] type = TRANSLATE -> 3
                [] OTHER            -> 0
      h    == ConstructHitable(t, i + lead)
  IN CASE type = FLIP_NORMALS ->
            Read([type |-> type, ptr |-> h.val], h.at)
       [] type = BOX ->
            Read([type |-> type, pmin |-> Vec3(t, i), pmax |-> Vec3(t, i + 3),
                  ptr |-> h.val], h.at)
       [] type = TRANSLATE ->
            Read([type |-> type, offset |-> Vec3(t, i), ptr |-> h.val], h.at)
       [] type = ROTATE_Y ->
            Read([type |-> type, ptr |-> h.val,
                  sinTheta |-> Token(t, h.at), cosTheta |-> Token(t, h.at + 1),
                  hasbox |-> Token(t, h.at + 2),
                  bbox |-> <<Vec3(t, h.at + 3), Vec3(t, h.at + 6)>>], h.at + 9)

(* The list with its length first, and the two halves of a bounding        *)
(* volume hierarchy with their box                                         *)
PackGroup(o) ==
  IF o.type = LIST
  THEN <<Len(o.list)>>
         \o FlattenSeq([n \in DOMAIN o.list |-> PackHitable(o.list[n])])
  ELSE PackHitable(o.left) \o PackHitable(o.right) \o Floats(o.box[1] \o o.box[2])

RECURSIVE UnpackElements(_, _, _)
UnpackElements(t, i, n) ==
  IF n < 1 THEN Read(<<>>, i)
  ELSE LET before == UnpackElements(t, i, n - 1)
           last   == ConstructHitable(t, before.at)
       IN  Read(Append(before.val, last.val), last.at)

UnpackGroup(t, i, type) ==
  LET elements == UnpackElements(t, i + 1, Token(t, i))
      left     == ConstructHitable(t, i)
      right    == ConstructHitable(t, left.at)
  IN  IF type = LIST
      THEN Read([type |-> type, list |-> elements.val], elements.at)
      ELSE Read([type |-> type, left |-> left.val, right |-> right.val,
                 box |-> <<Vec3(t, right.at), Vec3(t, right.at + 3)>>],
                right.at + 6)

(* A hitable behind the number of its type, as all its owners write it     *)
PackHitable(o) ==
  <<o.type>> \o
  CASE o.type \in SURFACES        -> PackSurface(o)
    [] o.type \in TRANSFORMATIONS -> PackTransformation(o)
    [] o.type \in {LIST, BVH}     -> PackGroup(o)

ConstructHitable(t, i) ==
  LET type == Token(t, i)
  IN CASE type \in SURFACES        -> UnpackSurface(t, i + 1, type)
       [] type \in TRANSFORMATIONS -> UnpackTransformation(t, i + 1, type)
       [] type \in {LIST, BVH}     -> UnpackGroup(t, i + 1, type)
       [] OTHER                    -> Read(Nullptr, i + 1)

-----------------------------------------------------------------------------
(* The camera: origin, lower left corner, horizontal, vertical, u, v and w, *)
(* then the radius of the lens                                             *)
PackCamera(cam) == Floats(FlattenSeq(cam.vectors) \o <<cam.lensRadius>>)

UnpackCamera(t, i) ==
  Read([vectors |-> [k \in 1..7 |-> Vec3(t, i + 3 * (k - 1))],
        lensRadius |-> Token(t, i + 21)], i + 22)

PackDescriptor(d) ==
  <<d.nX, d.nY, d.RPP>> \o PackCamera(d.camera) \o PackHitable(d.world)

UnpackDescriptor(t, i) ==
  LET camera == UnpackCamera(t, i + 3)
  IN  [nX |-> Token(t, i), nY |-> Token(t, i + 1), RPP |-> Token(t, i + 2),
       camera |-> camera.val, world |-> ConstructHitable(t, camera.at).val]
=============================================================================
